---------------------------- MODULE Spec2Model ----------------------------
(***************************************************************************)
(* A model of crocket.c, the CRocket sync-tracker client: the track store  *)
(* (find_key, sample, set_key, delete_key), the transport and protocol     *)
(* (disconnect, xsend, xrecv, handle_messages, reconnect) and the public   *)
(* API (crocket_init, crocket_done, crocket_update, crocket_set_mode).     *)
(*                                                                         *)
(* Representation of C values:                                             *)
(*  - a 32-bit word (unsigned int or int) is the integer with the same     *)
(*    two's-complement bit pattern, in MinInt..MaxInt. Read as an int it   *)
(*    is the value itself; read as an unsigned int a negative pattern p    *)
(*    stands for p + 2^32. The conversion between int and unsigned int is  *)
(*    therefore the identity on patterns (as on every build of crocket.c), *)
(*    and unsigned comparisons are made with ULt.                          *)
(*  - a float is a record [m, e] standing for m * 2^e, with m odd (or 0    *)
(*    with e = 0) and |m| < 2^24. Every arithmetic operation rounds its    *)
(*    exact result to 24 significant bits, ties to even, as IEEE-754       *)
(*    single precision does (exponent range is not modelled).              *)
(*  - the state/event bitmask is the set of the indices of its set bits.   *)
(***************************************************************************)
EXTENDS Integers, Sequences, FiniteSets, TLC

---------------------------------------------------------------------------
(* Program constants (crocket.h, crocket.c)                                *)

CROCKET_MODE_PLAYER == 0
CROCKET_MODE_CLIENT == 1

CROCKET_STATE_PLAYING == 0
CROCKET_STATE_CONNECTED == 1
CROCKET_EVENT_STOP == 2
CROCKET_EVENT_PLAY == 3
CROCKET_EVENT_SEEK == 4
CROCKET_EVENT_CONNECT == 5
CROCKET_EVENT_DISCONNECT == 6
CROCKET_EVENT_SAVE == 7

INITIAL_KEY_ALLOC == 16

INVALID_SOCKET == "INVALID_SOCKET"

StateBits == {CROCKET_STATE_PLAYING, CROCKET_STATE_CONNECTED}

---------------------------------------------------------------------------
(* 32-bit words                                                            *)

MaxInt == 2147483647
MinInt == (-2147483647) - 1

\* a < b for two words read as unsigned int
ULt(a, b) ==
  IF (a < 0) = (b < 0) THEN a < b ELSE b < 0

\* (a - b) mod 2^32 for two words, as unsigned subtraction computes it
SubW(a, b) ==
  IF (a < 0) = (b < 0) THEN a - b
  ELSE IF a < 0
       THEN LET d == (a - MinInt) - b
            IN  IF d >= 0 THEN d + MinInt ELSE d - MinInt
       ELSE LET d == a - (b - MinInt)
            IN  IF d < 0 THEN d - MinInt ELSE d + MinInt

---------------------------------------------------------------------------
(* Single-precision floats                                                 *)

RECURSIVE Pow2(_)
Pow2(n) == IF n = 0 THEN 1 ELSE 2 * Pow2(n - 1)

RECURSIVE BitLen(_)
BitLen(n) == IF n = 0 THEN 0 ELSE 1 + BitLen(n \div 2)

Abs(n) == IF n < 0 THEN 0 - n ELSE n

RECURSIVE Norm(_, _)
Norm(m, e) ==
  IF m = 0 THEN [m |-> 0, e |-> 0]
  ELSE IF m % 2 = 0 THEN Norm(m \div 2, e + 1)
  ELSE [m |-> m, e |-> e]

\* m * 2^e rounded to 24 significant bits, ties to even
RoundM(m, e) ==
  LET a == Abs(m)
      n == BitLen(a)
  IN  IF n <= 24 THEN Norm(m, e)
      ELSE LET sh   == n - 24
               q    == a \div Pow2(sh)
               rem  == a % Pow2(sh)
               half == Pow2(sh - 1)
               up   == (rem > half) \/ (rem = half /\ q % 2 = 1)
               r    == IF up THEN q + 1 ELSE q
           IN  Norm(IF m < 0 THEN 0 - r ELSE r, e + sh)

ZeroF == [m |-> 0, e |-> 0]
NegF(a) == [m |-> 0 - a.m, e |-> a.e]
TopF(a) == BitLen(Abs(a.m)) + a.e

AddF(a, b) ==
  IF a.m = 0 THEN b
  ELSE IF b.m = 0 THEN a
  ELSE IF TopF(a) - TopF(b) >= 27 THEN a
  ELSE IF TopF(b) - TopF(a) >= 27 THEN b
  ELSE LET e == IF a.e < b.e THEN a.e ELSE b.e
       IN  RoundM(a.m * Pow2(a.e - e) + b.m * Pow2(b.e - e), e)

SubF(a, b) == AddF(a, NegF(b))

MulF(a, b) == RoundM(a.m * b.m, a.e + b.e)

\* long division: the quotient n/d (n >= d > 0) to 28 significant bits, the
\* last one sticky
RECURSIVE DivBits(_, _, _, _)
DivBits(q, r, d, k) ==
  IF k = 0 THEN <<q, r>>
  ELSE IF 2 * r >= d THEN DivBits(2 * q + 1, 2 * r - d, d, k - 1)
  ELSE DivBits(2 * q, 2 * r, d, k - 1)

DivF(a, b) ==
  IF a.m = 0 THEN ZeroF
  ELSE LET n0 == Abs(a.m)
           d  == Abs(b.m)
           s  == IF BitLen(d) >= BitLen(n0) THEN BitLen(d) - BitLen(n0) + 1 ELSE 0
           n  == n0 * Pow2(s)
           q0 == n \div d
           k  == 28 - BitLen(q0)
           qr == DivBits(q0, n % d, d, k)
           q  == 2 * qr[1] + (IF qr[2] = 0 THEN 0 ELSE 1)
           sg == IF (a.m < 0) = (b.m < 0) THEN q ELSE 0 - q
       IN  RoundM(sg, a.e - b.e - s - k - 1)

LeZeroF(a) == a.m <= 0
LtZeroF(a) == a.m < 0

\* (float)i for an int i
IntToF(i) == IF i = MinInt THEN [m |-> -1, e |-> 31] ELSE RoundM(i, 0)

\* (float)u for an unsigned int u
UIntToF(u) ==
  IF u >= 0 THEN RoundM(u, 0)
  ELSE LET hi == u - MinInt
           m2 == (MaxInt \div 2) + 1 + (hi \div 2)
           st == IF hi % 2 = 1 /\ m2 % 2 = 0 THEN m2 + 1 ELSE m2
       IN  RoundM(st, 1)

\* (int)f and (unsigned int)f: truncation toward zero (the value must fit)
TruncF(a) ==
  IF a.e >= 0 THEN a.m * Pow2(a.e)
  ELSE IF a.m < 0 THEN 0 - (Abs(a.m) \div Pow2(0 - a.e))
  ELSE a.m \div Pow2(0 - a.e)

F(m, e) == Norm(m, e)

---------------------------------------------------------------------------
(* More operations on 32-bit words                                         *)

\* a + b modulo 2^32
AddW(a, b) ==
  IF b = MinInt THEN (IF a < 0 THEN a - MinInt ELSE a + MinInt)
  ELSE SubW(a, 0 - b)

\* val >> k for an unsigned int val, 0 <= k <= 30
ShrW(val, k) ==
  IF k = 0 THEN val
  ELSE IF val >= 0 THEN val \div Pow2(k)
  ELSE ((val - MinInt) \div Pow2(k)) + Pow2(31 - k)

\* x << k for an int x with 0 <= x < 128, 0 <= k <= 30; the bits shifted
\* out are lost and a result of 2^31 or more is the negative int with that
\* pattern, as on every build of crocket.c
ShlW(x, k) ==
  IF k = 0 THEN x
  ELSE IF k > 24
  THEN LET keep == x % Pow2(32 - k)
       IN  IF keep >= Pow2(31 - k) THEN (keep - Pow2(32 - k)) * Pow2(k)
           ELSE keep * Pow2(k)
  ELSE x * Pow2(k)

\* bit i of a word
BitW(val, i) == IF i = 31 THEN (IF val < 0 THEN 1 ELSE 0) ELSE ShrW(val, i) % 2

RECURSIVE SumBits(_, _)
SumBits(f, i) == IF i > 30 THEN 0 ELSE f[i] * Pow2(i) + SumBits(f, i + 1)

\* the word with the bits f[0..31]
WordOfBits(f) == SumBits(f, 0) + (IF f[31] = 1 THEN MinInt ELSE 0)

\* a | b
OrW(a, b) ==
  IF a = 0 THEN b
  ELSE IF b = 0 THEN a
  ELSE WordOfBits([i \in 0..31 |-> IF BitW(a, i) = 1 \/ BitW(b, i) = 1 THEN 1 ELSE 0])

---------------------------------------------------------------------------
(* The registry (crocket_vars.h, supplied by the host) and the track store *)

\* number of registered tracks; the host's registry is AllNames[1..NTracks]
NTracks == 2
AllNames == <<"foo", "bar", "baz", "qux", "quux">>
ntracks == NTracks
TrackIds == 1..ntracks

\* a track with no keys and no key array (the static initialiser)
EmptyTrack == [alloc |-> 0, keys |-> <<>>]

Key(row, value, interpol) == [row |-> row, value |-> value, interpol |-> interpol]

\* the binary search of find_key, keys[c] being keys[c + 1] here
RECURSIVE find_key_loop(_, _, _, _)
find_key_loop(keys, row, a, b) ==
  IF a + 1 < b
  THEN LET c     == (a + b) \div 2
           pivot == keys[c + 1].row
       IN  IF row = pivot THEN c + 1
           ELSE IF ULt(pivot, row) THEN find_key_loop(keys, row, c, b)
           ELSE find_key_loop(keys, row, a, c)
  ELSE a + 1

\* a faulty variant of find_key that never looks past the first key
find_key_first_only(t, row) ==
  IF Len(t.keys) = 0 \/ ULt(row, t.keys[1].row) THEN 0 ELSE 1

\* index of the key that corresponds to a row, plus 1 (0 = before first key)
find_key(t, row) ==
  IF Len(t.keys) = 0 \/ ULt(row, t.keys[1].row) THEN 0
  ELSE find_key_loop(t.keys, row, 0, Len(t.keys))

\* a faulty variant of sample whose ramp-up is linear
sample_ramp_is_linear(t, row) ==
  IF Len(t.keys) = 0 THEN ZeroF
  ELSE LET pos == find_key(t, IF LeZeroF(row) THEN 0 ELSE TruncF(row))
       IN  IF pos = 0 THEN t.keys[1].value
           ELSE LET k0 == t.keys[pos]
                IN  IF pos >= Len(t.keys) \/ k0.interpol = 0 THEN k0.value
                    ELSE LET k1 == t.keys[pos + 1]
                             x0 == DivF(SubF(row, UIntToF(k0.row)),
                                        UIntToF(SubW(k1.row, k0.row)))
                             x  == CASE k0.interpol = 1 -> x0
                                     [] k0.interpol = 2 ->
                                          MulF(x0, MulF(x0, SubF(F(3, 0), MulF(F(2, 0), x0))))
                                     [] k0.interpol = 3 -> x0
                                     [] OTHER -> ZeroF
                         IN  AddF(k0.value, MulF(x, SubF(k1.value, k0.value)))

sample(t, row) ==
  IF Len(t.keys) = 0 THEN ZeroF
  ELSE LET pos == find_key(t, IF LeZeroF(row) THEN 0 ELSE TruncF(row))
       IN  IF pos = 0 THEN t.keys[1].value
           ELSE LET k0 == t.keys[pos]
                IN  IF pos >= Len(t.keys) \/ k0.interpol = 0 THEN k0.value
                    ELSE LET k1 == t.keys[pos + 1]
                             x0 == DivF(SubF(row, UIntToF(k0.row)),
                                        UIntToF(SubW(k1.row, k0.row)))
                             x  == CASE k0.interpol = 1 -> x0
                                     [] k0.interpol = 2 ->
                                          MulF(x0, MulF(x0, SubF(F(3, 0), MulF(F(2, 0), x0))))
                                     [] k0.interpol = 3 -> MulF(x0, x0)
                                     [] OTHER -> ZeroF
                         IN  AddF(k0.value, MulF(x, SubF(k1.value, k0.value)))

InsertAt(keys, pos, k) ==
  [j \in 1..(Len(keys) + 1) |->
     IF j <= pos THEN keys[j] ELSE IF j = pos + 1 THEN k ELSE keys[j - 1]]

RemoveAt(keys, pos) ==
  [j \in 1..(Len(keys) - 1) |-> IF j < pos THEN keys[j] ELSE keys[j + 1]]

\* set_key on the track array tr; track_index counts from 0. realloc_ok is the
\* outcome of realloc, consulted only when the key array must grow.
\* a faulty variant of set_key that never looks for an existing key at the row
set_key_always_inserts(tr, track_index, row, value, interpol, realloc_ok) ==
  IF ~ULt(track_index, ntracks) THEN tr
  ELSE LET t   == tr[track_index + 1]
           pos == find_key(t, row)
       IN  [tr EXCEPT ![track_index + 1] =
              [alloc |-> IF Len(t.keys) >= t.alloc
                         THEN (IF t.alloc # 0 THEN 2 * t.alloc ELSE INITIAL_KEY_ALLOC)
                         ELSE t.alloc,
               keys  |-> InsertAt(t.keys, pos, Key(row, value, interpol))]]

\* a faulty variant of set_key that puts every new key behind the others
set_key_appends(tr, track_index, row, value, interpol, realloc_ok) ==
  IF ~ULt(track_index, ntracks) THEN tr
  ELSE LET t   == tr[track_index + 1]
           pos == find_key(t, row)
       IN  IF pos # 0 /\ t.keys[pos].row = row
           THEN [tr EXCEPT ![track_index + 1].keys[pos] = Key(row, value, interpol)]
           ELSE [tr EXCEPT ![track_index + 1] =
                   [alloc |-> IF Len(t.keys) >= t.alloc
                              THEN (IF t.alloc # 0 THEN 2 * t.alloc ELSE INITIAL_KEY_ALLOC)
                              ELSE t.alloc,
                    keys  |-> Append(t.keys, Key(row, value, interpol))]]

\* a faulty variant of set_key that keeps the key array it could not grow
set_key_keeps_array(tr, track_index, row, value, interpol, realloc_ok) ==
  IF ~ULt(track_index, ntracks) THEN tr
  ELSE LET t   == tr[track_index + 1]
           pos == find_key(t, row)
       IN  IF pos # 0 /\ t.keys[pos].row = row
           THEN [tr EXCEPT ![track_index + 1].keys[pos] = Key(row, value, interpol)]
           ELSE IF Len(t.keys) >= t.alloc /\ ~realloc_ok
           THEN [tr EXCEPT ![track_index + 1] = [alloc |-> 0, keys |-> t.keys]]
           ELSE LET alloc == IF Len(t.keys) >= t.alloc
                             THEN (IF t.alloc # 0 THEN 2 * t.alloc ELSE INITIAL_KEY_ALLOC)
                             ELSE t.alloc
                IN  [tr EXCEPT ![track_index + 1] =
                       [alloc |-> alloc,
                        keys  |-> InsertAt(t.keys, pos, Key(row, value, interpol))]]

\* set_key: the tracks after inserting or updating a key; when realloc() fails
\* the track loses its keys
set_key(tr, track_index, row, value, interpol, realloc_ok) ==
  IF ~ULt(track_index, ntracks) THEN tr
  ELSE LET t   == tr[track_index + 1]
           pos == find_key(t, row)
       IN  IF pos # 0 /\ t.keys[pos].row = row
           THEN [tr EXCEPT ![track_index + 1].keys[pos] = Key(row, value, interpol)]
           ELSE IF Len(t.keys) >= t.alloc /\ ~realloc_ok
           THEN [tr EXCEPT ![track_index + 1] = [alloc |-> 0, keys |-> <<>>]]
           ELSE LET alloc == IF Len(t.keys) >= t.alloc
                             THEN (IF t.alloc # 0 THEN 2 * t.alloc ELSE INITIAL_KEY_ALLOC)
                             ELSE t.alloc
                IN  [tr EXCEPT ![track_index + 1] =
                       [alloc |-> alloc,
                        keys  |-> InsertAt(t.keys, pos, Key(row, value, interpol))]]

\* a faulty variant of delete_key that leaves the key in place
delete_key_ignored(tr, track_index, row) == tr

\* a faulty variant of delete_key that removes the key at or before the row
delete_key_nearest(tr, track_index, row) ==
  IF ~ULt(track_index, ntracks) THEN tr
  ELSE LET t   == tr[track_index + 1]
           pos == find_key(t, row)
       IN  IF pos = 0 THEN tr
           ELSE [tr EXCEPT ![track_index + 1].keys = RemoveAt(t.keys, pos)]

\* delete_key: the tracks after removing the key at the row, if there is one
delete_key(tr, track_index, row) ==
  IF ~ULt(track_index, ntracks) THEN tr
  ELSE LET t   == tr[track_index + 1]
           pos == find_key(t, row)
       IN  IF pos = 0 \/ t.keys[pos].row # row THEN tr
           ELSE [tr EXCEPT ![track_index + 1].keys = RemoveAt(t.keys, pos)]

---------------------------------------------------------------------------
(* Import / export: the CTF codec                                          *)

MAX_LEB128_SIZE == 5

\* a faulty variant of put_leb128 that shifts by a whole byte
RECURSIVE put_leb128_by_bytes(_)
put_leb128_by_bytes(val) ==
  IF ~ULt(val, 128)
  THEN <<((val % 256) % 128) + 128>> \o put_leb128_by_bytes(ShrW(val, 8))
  ELSE <<val % 256>>

\* put_leb128: the bytes written for the unsigned int val
RECURSIVE put_leb128(_)
put_leb128(val) ==
  IF ~ULt(val, 128)
  THEN <<((val % 256) % 128) + 128>> \o put_leb128(ShrW(val, 7))
  ELSE <<val % 256>>

\* get_leb128's loop, reading data from position pos (counted from 1):
\* the value and the position after the last byte read
RECURSIVE get_leb128_loop(_, _, _, _)
get_leb128_loop(data, pos, val, shift) ==
  IF shift < 32
  THEN LET v == OrW(val, ShlW(data[pos] % 128, shift))
       IN  IF data[pos] < 128 THEN [val |-> v, pos |-> pos + 1]
           ELSE get_leb128_loop(data, pos + 1, v, shift + 7)
  ELSE [val |-> val, pos |-> pos]

get_leb128(data, pos) == get_leb128_loop(data, pos, 0, 0)

\* the bytes of the registry's names (ASCII)
NameBytes(name) ==
  CASE name = "foo"  -> <<102, 111, 111>>
    [] name = "bar"  -> <<98, 97, 114>>
    [] name = "baz"  -> <<98, 97, 122>>
    [] name = "qux"  -> <<113, 117, 120>>
    [] name = "quux" -> <<113, 117, 117, 120>>

\* the four bytes, in the byte order of the (little-endian) build, of the
\* IEEE-754 binary32 word with the given sign, biased exponent and fraction
FloatBytes(sign, biased, frac) ==
  <<frac % 256,
    (frac \div 256) % 256,
    (frac \div 65536) + 128 * (biased % 2),
    (biased \div 2) + 128 * sign>>

\* a faulty variant of put_float that loses the sign of the value
put_float_drops_sign(f) ==
  IF f.m = 0 THEN FloatBytes(0, 0, 0)
  ELSE LET n == BitLen(Abs(f.m))
       IN  FloatBytes(0, f.e + n - 1 + 127, Abs(f.m) * Pow2(24 - n) - Pow2(23))

\* put_float: the bytes of f, which is zero or a normal number m * 2^e
put_float(f) ==
  IF f.m = 0 THEN FloatBytes(0, 0, 0)
  ELSE LET n == BitLen(Abs(f.m))
       IN  FloatBytes(IF f.m < 0 THEN 1 ELSE 0, f.e + n - 1 + 127,
                      Abs(f.m) * Pow2(24 - n) - Pow2(23))

\* memcpy(&k->value, pos, 4): the float that four bytes stand for (zero or a
\* normal number)
get_float(data, pos) ==
  LET b0     == data[pos]
      b1     == data[pos + 1]
      b2     == data[pos + 2]
      b3     == data[pos + 3]
      sign   == b3 \div 128
      biased == 2 * (b3 % 128) + (b2 \div 128)
      frac   == 65536 * (b2 % 128) + 256 * b1 + b0
      m      == Pow2(23) + frac
  IN  IF biased = 0 /\ frac = 0 THEN ZeroF
      ELSE Norm(IF sign = 1 THEN 0 - m ELSE m, biased - 127 - 23)

CTF_FILE_HEADER_PART1 == <<99, 114, 111, 99, 107, 101, 116, 10>>
CTF_FILE_VERSION == F(1, 0)
CTF_FILE_HEADER_PART3 == <<13, 10, 0, 26>>
CTF_FILE_HEADER_LENGTH == 16

\* the key loop of crocket_get_data (lines 704-709)
RECURSIVE put_keys(_, _, _)
put_keys(keys, j, ref) ==
  IF j > Len(keys) THEN <<>>
  ELSE LET k == keys[j]
       IN  put_leb128(SubW(k.row, ref)) \o put_float(k.value) \o <<k.interpol>>
           \o put_keys(keys, j + 1, AddW(k.row, 1))

\* the track loop of crocket_get_data (lines 696-710)
RECURSIVE put_tracks(_, _)
put_tracks(tr, i) ==
  IF i > ntracks THEN <<>>
  ELSE LET t == tr[i]
       IN  (IF Len(t.keys) = 0 THEN <<>>
            ELSE put_leb128(Len(NameBytes(AllNames[i]))) \o NameBytes(AllNames[i])
                 \o put_leb128(Len(t.keys)) \o put_keys(t.keys, 1, 0))
           \o put_tracks(tr, i + 1)

\* a faulty variant of the estimate that reserves one byte for each key's row
RECURSIVE get_data_size_short_rows(_, _)
get_data_size_short_rows(tr, i) ==
  IF i > ntracks THEN CTF_FILE_HEADER_LENGTH + MAX_LEB128_SIZE
  ELSE Len(NameBytes(AllNames[i])) + 2 * MAX_LEB128_SIZE
       + Len(tr[i].keys) * (1 + 5) + get_data_size_short_rows(tr, i + 1)

\* the size crocket_get_data allocates (lines 677-682)
RECURSIVE get_data_size(_, _)
get_data_size(tr, i) ==
  IF i > ntracks THEN CTF_FILE_HEADER_LENGTH + MAX_LEB128_SIZE
  ELSE Len(NameBytes(AllNames[i])) + 2 * MAX_LEB128_SIZE
       + Len(tr[i].keys) * (MAX_LEB128_SIZE + 5) + get_data_size(tr, i + 1)

\* crocket_get_data: the image of the tracks tr (the case where malloc succeeds)
crocket_get_data(tr) ==
  CTF_FILE_HEADER_PART1 \o put_float(CTF_FILE_VERSION) \o CTF_FILE_HEADER_PART3
  \o put_leb128(Cardinality({i \in TrackIds : Len(tr[i].keys) # 0}))
  \o put_tracks(tr, 1)

\* a faulty variant of the search that does not compare the lengths
find_track_by_prefix(data, pos, len) ==
  LET hits == {i \in TrackIds :
                 /\ Len(NameBytes(AllNames[i])) >= len
                 /\ \A j \in 1..len : data[pos + j - 1] = NameBytes(AllNames[i])[j]}
  IN  IF hits = {} THEN ntracks + 1
      ELSE CHOOSE i \in hits : \A h \in hits : i <= h

\* the track a name of len bytes at pos belongs to; ntracks + 1 is the sentinel
\* at the end of crocket_tracks (lines 758-761)
find_track(data, pos, len) ==
  LET hits == {i \in TrackIds :
                 /\ Len(NameBytes(AllNames[i])) = len
                 /\ \A j \in 1..len : data[pos + j - 1] = NameBytes(AllNames[i])[j]}
  IN  IF hits = {} THEN ntracks + 1
      ELSE CHOOSE i \in hits : \A h \in hits : i <= h

\* the key loop of load_data for a registered track (lines 780-789): the keys
\* read and the position after them
RECURSIVE load_keys(_, _, _, _, _)
load_keys(data, pos, len, ref, keys) ==
  IF len = 0 THEN [keys |-> keys, pos |-> pos]
  ELSE LET r  == get_leb128(data, pos)
           kr == AddW(r.val, ref)
       IN  load_keys(data, r.pos + 5, SubW(len, 1), AddW(kr, 1),
                     Append(keys, Key(kr, get_float(data, r.pos), data[r.pos + 4])))

\* the same loop reading into dummy_key: only the position moves
RECURSIVE skip_keys(_, _, _)
skip_keys(data, pos, len) ==
  IF len = 0 THEN pos
  ELSE skip_keys(data, get_leb128(data, pos).pos + 5, SubW(len, 1))

\* the track loop of load_data (lines 755-790). malloc_ok is the outcome of the
\* malloc of each key array; when it fails the track is left without keys and
\* its entry is read into dummy_key.
RECURSIVE load_tracks(_, _, _, _, _)
load_tracks(data, pos, track_count, tr, malloc_ok) ==
  IF track_count = 0 THEN tr
  ELSE LET n   == get_leb128(data, pos)
           t   == find_track(data, n.pos, n.val)
           l   == get_leb128(data, n.pos + n.val)
           len == l.val
       IN  IF len = 0
           THEN load_tracks(data, l.pos, SubW(track_count, 1),
                            IF t <= ntracks THEN [tr EXCEPT ![t].keys = <<>>] ELSE tr,
                            malloc_ok)
           ELSE IF t <= ntracks /\ malloc_ok
           THEN LET ks == load_keys(data, l.pos, len, 0, <<>>)
                IN  load_tracks(data, ks.pos, SubW(track_count, 1),
                                [tr EXCEPT ![t] = [alloc |-> len, keys |-> ks.keys]],
                                malloc_ok)
           ELSE load_tracks(data, skip_keys(data, l.pos, len), SubW(track_count, 1),
                            IF t <= ntracks THEN [tr EXCEPT ![t] = EmptyTrack] ELSE tr,
                            malloc_ok)

\* whether load_data moves k past dummy_key and writes there: malloc failed
\* for a registered track whose entry holds two keys or more (lines 772, 788)
RECURSIVE load_overruns(_, _, _)
load_overruns(data, pos, track_count) ==
  IF track_count = 0 THEN FALSE
  ELSE LET n == get_leb128(data, pos)
           t == find_track(data, n.pos, n.val)
           l == get_leb128(data, n.pos + n.val)
       IN  \/ t <= ntracks /\ ULt(1, l.val)
           \/ load_overruns(data, skip_keys(data, l.pos, l.val), SubW(track_count, 1))

\* a faulty variant of the check that compares the first part only
header_part1_only(data) ==
  /\ Len(data) >= CTF_FILE_HEADER_LENGTH
  /\ SubSeq(data, 1, 8) = CTF_FILE_HEADER_PART1

\* "check header": the three memcmp of load_data
HeaderMatches(data) ==
  /\ Len(data) >= CTF_FILE_HEADER_LENGTH
  /\ SubSeq(data, 1, 16) =
       CTF_FILE_HEADER_PART1 \o put_float(CTF_FILE_VERSION) \o CTF_FILE_HEADER_PART3

\* load_data: the tracks after loading the image data (<<>> stands for NULL)
load_data(data, tr, malloc_ok) ==
  IF data = <<>> \/ ~HeaderMatches(data) THEN tr
  ELSE LET c == get_leb128(data, CTF_FILE_HEADER_LENGTH + 1)
       IN  load_tracks(data, c.pos, c.val, tr, malloc_ok)

---------------------------------------------------------------------------
(* Bounds and input sets of the model                                      *)

\* messages the server gets through to the client within one API call
MaxMsgs == 2

\* rpm arguments of crocket_init (60 is CROCKET_TIME_IN_ROWS)
RPMs == {60, 480}
\* host times passed to crocket_update: -1, 0, 0.5, 2
Times == {F(-1, 0), ZeroF, F(1, -1), F(2, 0)}
\* mode arguments of crocket_set_mode
ModeArgs == {0, 1, 2}
\* outcome of the CROCKET_SERVER lookup in crocket_init
HostOutcomes == {"unset", "resolved", "unresolved"}

\* server messages, by command byte
SetKeyMsg(i, row, value, interpol) ==
  [cmd |-> 0, track_index |-> i, row |-> row, value |-> value, interpol |-> interpol]
DeleteKeyMsg(i, row) == [cmd |-> 1, track_index |-> i, row |-> row]
SetRowMsg(row) == [cmd |-> 3, row |-> row]
PauseMsg(flag) == [cmd |-> 4, mode |-> flag]
SaveMsg == [cmd |-> 5]
ActionMsg(n) == [cmd |-> 6, action |-> n]
UnknownMsg == [cmd |-> 7]

\* number of payload bytes handle_messages reads after each command byte
PayloadBytes(cmd) ==
  CASE cmd = 0 -> 13 [] cmd = 1 -> 8 [] cmd = 3 -> 4
    [] cmd = 4 -> 1  [] cmd = 6 -> 4 [] OTHER -> 0

---------------------------------------------------------------------------
(* State                                                                   *)

VARIABLES
  crocket_tracks,         \* crocket_tracks[1..ntracks]: [alloc, keys]
  crocket_current_state,  \* set of the bits set in the state/event bitmask
  crocket_timescale,      \* float
  crocket_save_file,      \* "NULL" or the file name
  crocket_mode,           \* CROCKET_MODE_PLAYER / CROCKET_MODE_CLIENT
  crocket_current_row,    \* int
  crocket_socket,         \* INVALID_SOCKET or "open"
  host_vars,              \* the bound variables *p_var, one float per track
  p_time,                 \* the host's time variable during crocket_update
  row,                    \* crocket_update's local float row
  pc,                     \* position of the running API call, "idle" between calls
  caller,                 \* the running API call
  ti,                     \* reconnect's track loop position (1..ntracks)
  arg,                    \* crocket_init's arguments still to be used
  nmsg,                   \* messages received in this call (bounded by MaxMsgs)
  hs,                     \* progress of the latest connection attempt
  call,                   \* what the running call did so far (observation only)
  last,                   \* the API call that returned last
  probe,                  \* operands of a function applied on its own
  result,                 \* what that function returned
  disk,                   \* the file that save_file names: [exists, bytes]
  inbox                   \* messages the server sent that were not yet received

vars == <<crocket_tracks, crocket_current_state, crocket_timescale, crocket_save_file,
          crocket_mode, crocket_current_row, crocket_socket, host_vars, p_time, row,
          pc, caller, ti, arg, nmsg, hs, call, last, probe, result, disk, inbox>>

\* the variables only the function applications below use
harness == <<probe, result>>
NoProbe == [fn |-> "none"]
NoResult == [stage |-> "none"]

\* crocket_init(NULL, NULL, rpm); <<>> stands for the data pointer NULL
NoArg == [save_file |-> "NULL", data |-> <<>>]

\* no file of that name
NoFile == [exists |-> FALSE, bytes |-> <<>>]
NoHs == [greeted |-> FALSE, get_track |-> 0, settled |-> FALSE, timeout |-> 0]

\* observation of one API call:
\*   attempts   connection attempts made (reconnect got past its guard)
\*   io         "none": no socket system call made; "used": some made, socket
\*              in use; "closed": the socket was closed; "misused": a system
\*              call was made on a closed socket
\*   failed     a send, recv or select failed
\*   seek_row   <<row>> of the last SET_ROW received (<<>> if none was)
\*   sent       messages sent to the server, in order
\*   pending    event bits that were set when the call began
\*   conn0      CONNECTED was set when the call began
\*   paused     a PAUSE message was received
\*   outcome    how far the connection attempt got ("none" if none was made)
\*   edit       <<m>> for the last SET_KEY or DELETE_KEY message m received by
\*              the message drain of crocket_update (<<>> if none was)
\*   load       what crocket_init did about the track data: "skipped" (it was
\*              connected), "loaded", "nomem" (an allocation of load_data
\*              failed), "undefined" (load_data wrote past dummy_key)
\*   data       the image crocket_init handed to load_data (<<>> for NULL)
\*   sync       in a call that made a connection attempt: per track, the
\*              SET_KEY and DELETE_KEY messages received for it since the
\*              GET_TRACK sent for it
\*   nomem      a realloc() of set_key failed
\*   last_msg   <<m>> for the message m received last (<<>> if none was)
\*   pause_mode <<mode>> of the PAUSE message received last (<<>> if none was)
\*   unknown    the number, in the order of reception, of the last message
\*              with an unknown command byte (0 if none was received)
NoCall == [attempts |-> 0, io |-> "none", failed |-> FALSE, seek_row |-> <<>>,
           sent |-> <<>>, pending |-> {}, conn0 |-> FALSE, paused |-> FALSE,
           outcome |-> "none", edit |-> <<>>, load |-> "none", data |-> <<>>,
           sync |-> [i \in TrackIds |-> <<>>], nomem |-> FALSE,
           last_msg |-> <<>>, pause_mode |-> <<>>, unknown |-> 0]

NewCall(state) ==
  [NoCall EXCEPT !.pending = state \ StateBits,
                 !.conn0 = (CROCKET_STATE_CONNECTED \in state)]

\* a system call on the socket sock
Syscall(c, sock) ==
  [c EXCEPT !.io = IF sock = INVALID_SOCKET THEN "misused" ELSE "used"]

\* what is left to receive on the socket sock: closing the socket discards
\* what the server sent
Stream(sock) == IF sock = INVALID_SOCKET THEN <<>> ELSE inbox

---------------------------------------------------------------------------
(* Transport                                                               *)

\* a faulty variant of disconnect that raises DISCONNECT unconditionally
disconnect_always_raises(sock, state) ==
  [sock  |-> INVALID_SOCKET,
   state |-> (state \cup {CROCKET_EVENT_DISCONNECT}) \ {CROCKET_STATE_CONNECTED}]

\* a faulty variant of disconnect that leaves CONNECTED set
disconnect_keeps_connected(sock, state) ==
  [sock  |-> INVALID_SOCKET,
   state |-> IF CROCKET_STATE_CONNECTED \in state
             THEN state \cup {CROCKET_EVENT_DISCONNECT}
             ELSE state]

\* disconnect(): the new socket and state
disconnect(sock, state) ==
  [sock  |-> INVALID_SOCKET,
   state |-> IF CROCKET_STATE_CONNECTED \in state
             THEN (state \cup {CROCKET_EVENT_DISCONNECT}) \ {CROCKET_STATE_CONNECTED}
             ELSE state]

\* the observation of disconnect(): closesocket() on an open socket
DisconnectCall(c, sock) ==
  IF sock # INVALID_SOCKET THEN [c EXCEPT !.io = "closed"] ELSE c

\* a faulty variant of xsend that calls send() on any socket
xsend_never_skips(sock) == FALSE

\* xsend's early return: nothing is sent on an invalid socket
xsend_skips(sock) == sock = INVALID_SOCKET

---------------------------------------------------------------------------
(* Protocol: handle_messages                                               *)

\* 8 + n in unsigned arithmetic, the shift count of CROCKET_EVENT_ACTION(n)
ActionShift(n) ==
  IF n > MaxInt - 8 THEN MinInt + (n - (MaxInt - 7)) ELSE n + 8

\* the bits of CROCKET_EVENT_ACTION(n) = 1 << (8 + n) for an unsigned n. A shift
\* count of 32 or more is undefined: the builds either reduce the count
\* modulo 32 (ub = "masked") or yield 0 (ub = "zero").
CROCKET_EVENT_ACTION(n, ub) ==
  LET s == ActionShift(n)
  IN  IF s >= 0 /\ s <= 31 THEN {s}
      ELSE IF ub = "masked" THEN {s % 32} ELSE {}

UBOutcomes == {"masked", "zero"}

\* the PAUSE case of handle_messages
pause(state, mode) ==
  IF mode # 0
  THEN (state \cup {CROCKET_EVENT_STOP}) \ {CROCKET_EVENT_PLAY, CROCKET_STATE_PLAYING}
  ELSE (state \cup {CROCKET_EVENT_PLAY, CROCKET_STATE_PLAYING}) \ {CROCKET_EVENT_STOP}

\* a command switch whose default case is the SAVE case
handle_command_default_saves(m, tracks, state, current_row, realloc_ok, ub) ==
  CASE m.cmd = 0 ->
         [tracks |-> set_key(tracks, m.track_index, m.row, m.value, m.interpol, realloc_ok),
          state |-> state, current_row |-> current_row]
    [] m.cmd = 1 ->
         [tracks |-> delete_key(tracks, m.track_index, m.row),
          state |-> state, current_row |-> current_row]
    [] m.cmd = 3 ->
         [tracks |-> tracks, state |-> state \cup {CROCKET_EVENT_SEEK},
          current_row |-> m.row]
    [] m.cmd = 4 ->
         [tracks |-> tracks, state |-> pause(state, m.mode), current_row |-> current_row]
    [] m.cmd = 5 ->
         [tracks |-> tracks, state |-> state \cup {CROCKET_EVENT_SAVE},
          current_row |-> current_row]
    [] m.cmd = 6 ->
         [tracks |-> tracks, state |-> state \cup CROCKET_EVENT_ACTION(m.action, ub),
          current_row |-> current_row]
    [] OTHER ->
         [tracks |-> tracks, state |-> state \cup {CROCKET_EVENT_SAVE},
          current_row |-> current_row]

\* the command switch of handle_messages on a fully received message m:
\* the new tracks, state and current row
handle_command(m, tracks, state, current_row, realloc_ok, ub) ==
  CASE m.cmd = 0 ->
         [tracks |-> set_key(tracks, m.track_index, m.row, m.value, m.interpol, realloc_ok),
          state |-> state, current_row |-> current_row]
    [] m.cmd = 1 ->
         [tracks |-> delete_key(tracks, m.track_index, m.row),
          state |-> state, current_row |-> current_row]
    [] m.cmd = 3 ->
         [tracks |-> tracks, state |-> state \cup {CROCKET_EVENT_SEEK},
          current_row |-> m.row]
    [] m.cmd = 4 ->
         [tracks |-> tracks, state |-> pause(state, m.mode), current_row |-> current_row]
    [] m.cmd = 5 ->
         [tracks |-> tracks, state |-> state \cup {CROCKET_EVENT_SAVE},
          current_row |-> current_row]
    [] m.cmd = 6 ->
         [tracks |-> tracks, state |-> state \cup CROCKET_EVENT_ACTION(m.action, ub),
          current_row |-> current_row]
    [] OTHER ->
         [tracks |-> tracks, state |-> state, current_row |-> current_row]

\* a faulty variant in which a failed attempt goes on into the track loop
AfterReconnect_into_track_loop(c) ==
  IF c = "init" THEN "fin"
  ELSE IF /\ pc = "rc"
          /\ crocket_mode = CROCKET_MODE_CLIENT
          /\ CROCKET_STATE_CONNECTED \notin crocket_current_state
       THEN "gt" ELSE "hm_update"

\* where the caller of reconnect() goes on
AfterReconnect(c) == IF c = "init" THEN "fin" ELSE "hm_update"

\* handle_messages returns ok to its call site pc
handle_messages_return(ok, state) ==
  CASE pc = "hm_track" ->
         /\ crocket_current_state' = state
         /\ pc' = IF ~ok THEN AfterReconnect(caller)
                  ELSE IF ti < ntracks THEN "gt" ELSE "hm_settle"
         /\ ti' = IF ok /\ ti < ntracks THEN ti + 1 ELSE ti
         /\ hs' = hs
    [] pc = "hm_settle" ->
         /\ crocket_current_state' =
              IF ok THEN state \cup {CROCKET_STATE_CONNECTED, CROCKET_EVENT_CONNECT}
              ELSE state
         /\ pc' = AfterReconnect(caller)
         /\ ti' = ti
         /\ hs' = [hs EXCEPT !.settled = ok]
    [] pc = "hm_update" ->
         /\ crocket_current_state' = state
         /\ pc' = "time"
         /\ ti' = ti
         /\ hs' = hs

\* one pass of handle_messages' receive loop: select() finds a message of
\* Msgs to receive, or (if quiet) finds nothing, or fails
handle_messages_loop(Msgs, quiet) ==
  /\ pc \in {"hm_track", "hm_settle", "hm_update"}
  /\ UNCHANGED <<harness, disk>>
  /\ UNCHANGED <<crocket_timescale, crocket_save_file, crocket_mode, host_vars,
                 p_time, row, caller, arg, last>>
  /\ IF crocket_socket = INVALID_SOCKET
     THEN /\ handle_messages_return(FALSE, crocket_current_state)
          /\ UNCHANGED <<crocket_tracks, crocket_current_row, crocket_socket, nmsg, call>>
     ELSE \/ \* select() = 0: no new messages
             /\ quiet
             /\ handle_messages_return(TRUE, crocket_current_state)
             /\ call' = Syscall(call, crocket_socket)
             /\ UNCHANGED <<crocket_tracks, crocket_current_row, crocket_socket, nmsg>>
          \/ \* select() fails, or recv() fails on the command or its payload
             /\ LET d == disconnect(crocket_socket, crocket_current_state)
                IN  /\ handle_messages_return(FALSE, d.state)
                    /\ crocket_socket' = d.sock
             /\ call' = [DisconnectCall(Syscall(call, crocket_socket), crocket_socket)
                           EXCEPT !.failed = TRUE]
             /\ UNCHANGED <<crocket_tracks, crocket_current_row, nmsg>>
          \/ \* a whole message is received and handled
             /\ nmsg < MaxMsgs
             /\ \E m \in Msgs, realloc_ok \in BOOLEAN, ub \in UBOutcomes :
                  LET r == handle_command(m, crocket_tracks, crocket_current_state,
                                          crocket_current_row, realloc_ok, ub)
                  IN  /\ crocket_tracks' = r.tracks
                      /\ crocket_current_state' = r.state
                      /\ crocket_current_row' = r.current_row
                      /\ call' = [Syscall(call, crocket_socket) EXCEPT
                                    !.seek_row = IF m.cmd = 3 THEN <<m.row>> ELSE @,
                                    !.paused = IF m.cmd = 4 THEN TRUE ELSE @,
                                    !.last_msg = <<m>>,
                                    !.unknown = IF m.cmd \notin {0, 1, 3, 4, 5, 6}
                                                THEN nmsg + 1 ELSE @,
                                    !.pause_mode = IF m.cmd = 4 THEN <<m.mode>> ELSE @,
                                    !.edit = IF pc = "hm_update" /\ m.cmd \in {0, 1}
                                             THEN <<m>> ELSE @,
                                    !.sync = IF call.attempts = 1 /\ m.cmd \in {0, 1}
                                                /\ ULt(m.track_index, ntracks)
                                             THEN [@ EXCEPT ![m.track_index + 1] =
                                                     Append(@, m)]
                                             ELSE @,
                                    !.nomem = @ \/ r.tracks #
                                                handle_command(m, crocket_tracks,
                                                  crocket_current_state,
                                                  crocket_current_row, TRUE, ub).tracks]
             /\ nmsg' = nmsg + 1
             /\ UNCHANGED <<crocket_socket, pc, ti, hs>>

\* handle_messages with a server that may send any message of Msgs, or none,
\* just before each select()
handle_messages(Msgs) ==
  /\ handle_messages_loop(Msgs, TRUE)
  /\ inbox' = Stream(crocket_socket')

\* a faulty variant whose select() may find nothing while messages are queued
handle_messages_misses_data ==
  /\ handle_messages_loop(IF inbox = <<>> THEN {} ELSE {Head(inbox)}, TRUE)
  /\ inbox' = IF nmsg' = nmsg + 1 THEN Tail(inbox) ELSE Stream(crocket_socket')

\* handle_messages with the messages the server sent queued in inbox: select()
\* finds nothing exactly when the queue is empty, and recv() takes its head
handle_messages_queued ==
  /\ handle_messages_loop(IF inbox = <<>> THEN {} ELSE {Head(inbox)}, inbox = <<>>)
  /\ inbox' = IF nmsg' = nmsg + 1 THEN Tail(inbox) ELSE Stream(crocket_socket')

\* the server sends a message of Msgs on the connection
server_send(Msgs) ==
  /\ crocket_socket # INVALID_SOCKET
  /\ pc # "blocked"
  /\ Len(inbox) + nmsg < MaxMsgs
  /\ \E m \in Msgs : inbox' = Append(inbox, m)
  /\ UNCHANGED <<crocket_tracks, crocket_current_state, crocket_timescale,
                 crocket_save_file, crocket_mode, crocket_current_row, crocket_socket,
                 host_vars, p_time, row, pc, caller, ti, arg, nmsg, hs, call, last,
                 probe, result, disk>>

---------------------------------------------------------------------------
(* Connection handling: reconnect                                          *)

\* faulty variants of reconnect's guard: one ignores the mode, one the
\* CONNECTED bit
reconnect_ignores_mode(mode, state) == CROCKET_STATE_CONNECTED \in state
reconnect_ignores_connected(mode, state) == mode = CROCKET_MODE_PLAYER

\* "don't do anything if connected": reconnect returns at once
reconnect_returns(mode, state) ==
  \/ mode = CROCKET_MODE_PLAYER
  \/ CROCKET_STATE_CONNECTED \in state

\* how far socket(), connect() and the greeting exchange get
\* "no_greeting": the server accepts the connection and sends nothing.
ConnectOutcomes ==
  {"socket_failed", "connect_failed", "send_failed", "recv_failed", "bad_greeting",
   "no_greeting", "greeted"}

\* the send and receive timeout set for connect(), in milliseconds
RECONNECT_TIMEOUT == 20

\* "reset timeout": the timeout set once connect() has succeeded (0: none)
notimeout == 0

\* SO_SNDTIMEO and SO_RCVTIMEO of the socket when reconnect is through with
\* outcome o
socket_timeout(o) ==
  CASE o = "socket_failed" -> 0
    [] o = "connect_failed" -> RECONNECT_TIMEOUT
    [] OTHER -> notimeout

\* recv() on a connection on which nothing arrives blocks unless a receive
\* timeout is set
recv_blocks(timeout) == timeout = 0

CLIENT_GREET == "hello, synctracker!"
GreetMsg == [greet |-> CLIENT_GREET]
GetTrackMsg(name) == [cmd |-> 2, name |-> name]

\* reconnect, up to the greeting exchange
reconnect ==
  /\ pc = "rc"
  /\ UNCHANGED <<harness, disk>>
  /\ UNCHANGED <<crocket_tracks, crocket_timescale, crocket_save_file, crocket_mode,
                 crocket_current_row, host_vars, p_time, row, caller, arg, nmsg, last>>
  /\ IF reconnect_returns(crocket_mode, crocket_current_state)
     THEN /\ pc' = AfterReconnect(caller)
          /\ UNCHANGED <<crocket_current_state, crocket_socket, ti, hs, call>>
     ELSE \E o \in ConnectOutcomes :
            LET d0 == disconnect(crocket_socket, crocket_current_state)
                c0 == DisconnectCall([call EXCEPT !.attempts = @ + 1, !.outcome = o], crocket_socket)
                \* socket() was called
                c1 == [c0 EXCEPT !.io = "used"]
                \* the failure paths end in disconnect() on the new socket
                d1 == disconnect("open", d0.state)
                c2 == DisconnectCall(c1, "open")
                \* xrecv() of a greeting that never arrives does not return
                blocked == o = "no_greeting" /\ recv_blocks(socket_timeout(o))
            IN  /\ hs' = [NoHs EXCEPT !.greeted = (o = "greeted"),
                                      !.timeout = socket_timeout(o)]
                /\ crocket_current_state' =
                     IF o = "socket_failed" \/ blocked THEN d0.state ELSE d1.state
                /\ crocket_socket' = IF o = "greeted" \/ blocked THEN "open"
                                     ELSE INVALID_SOCKET
                /\ call' = CASE o = "socket_failed" -> c1
                             [] o = "connect_failed" -> c2
                             [] o = "send_failed" -> [c2 EXCEPT !.failed = TRUE]
                             [] o = "recv_failed" ->
                                  [c2 EXCEPT !.failed = TRUE, !.sent = <<GreetMsg>>]
                             [] o = "bad_greeting" -> [c2 EXCEPT !.sent = <<GreetMsg>>]
                             [] o = "no_greeting" ->
                                  IF blocked THEN [c1 EXCEPT !.sent = <<GreetMsg>>]
                                  ELSE [c2 EXCEPT !.failed = TRUE, !.sent = <<GreetMsg>>]
                             [] o = "greeted" -> [c1 EXCEPT !.sent = <<GreetMsg>>]
                /\ pc' = IF blocked THEN "blocked"
                         ELSE IF o # "greeted" THEN AfterReconnect(caller)
                         ELSE IF ntracks = 0 THEN "hm_settle" ELSE "gt"
                /\ ti' = IF o = "greeted" THEN 1 ELSE ti
  /\ inbox' = IF reconnect_returns(crocket_mode, crocket_current_state) THEN inbox ELSE <<>>

\* a faulty variant of the clearing that keeps the keys
clear_track_skipped(tr, i) == tr

\* "t->nkeys = 0": the tracks after clearing track i
clear_track(tr, i) == [tr EXCEPT ![i].keys = <<>>]

\* reconnect's track loop: clear track ti and send GET_TRACK for it
reconnect_get_track ==
  /\ pc = "gt"
  /\ UNCHANGED <<harness, disk>>
  /\ UNCHANGED <<crocket_timescale, crocket_save_file, crocket_mode, crocket_current_row,
                 host_vars, p_time, row, caller, arg, nmsg, last, ti>>
  /\ crocket_tracks' = clear_track(crocket_tracks, ti)
  /\ \/ \* both xsend succeed; handle_messages(0) follows
        /\ call' = [Syscall(call, crocket_socket) EXCEPT
                      !.sent = Append(@, GetTrackMsg(AllNames[ti])),
                      !.sync[ti] = <<>>]
        /\ hs' = [hs EXCEPT !.get_track = @ + 1]
        /\ pc' = "hm_track"
        /\ UNCHANGED <<crocket_current_state, crocket_socket>>
     \/ \* an xsend fails
        /\ LET d == disconnect(crocket_socket, crocket_current_state)
           IN  /\ crocket_current_state' = d.state
               /\ crocket_socket' = d.sock
        /\ call' = [DisconnectCall(Syscall(call, crocket_socket), crocket_socket)
                      EXCEPT !.failed = TRUE, !.sync[ti] = <<>>]
        /\ pc' = AfterReconnect(caller)
        /\ hs' = hs
  /\ inbox' = Stream(crocket_socket')

---------------------------------------------------------------------------
(* Core API                                                                *)

\* a faulty variant of crocket_set_mode that does not resume playback
set_mode_keeps_paused(mode_arg, mode, sock, state) ==
  LET m == IF mode_arg # 0 THEN 1 ELSE 0
  IN  IF m = mode THEN [mode |-> mode, sock |-> sock, state |-> state]
      ELSE IF m = CROCKET_MODE_PLAYER
      THEN LET d == disconnect(sock, state)
           IN  [mode |-> m, sock |-> d.sock, state |-> d.state]
      ELSE [mode |-> m, sock |-> sock, state |-> state]

\* crocket_set_mode: the new mode, socket and state
set_mode(mode_arg, mode, sock, state) ==
  LET m == IF mode_arg # 0 THEN 1 ELSE 0
  IN  IF m = mode THEN [mode |-> mode, sock |-> sock, state |-> state]
      ELSE IF m = CROCKET_MODE_PLAYER
      THEN LET d == disconnect(sock, state)
           IN  [mode |-> m, sock |-> d.sock,
                state |-> d.state \cup {CROCKET_STATE_PLAYING, CROCKET_EVENT_PLAY}]
      ELSE [mode |-> m, sock |-> sock, state |-> state]

crocket_set_mode(Modes) ==
  /\ pc = "idle"
  /\ UNCHANGED <<harness, disk>>
  /\ \E mode_arg \in Modes :
       LET r == set_mode(mode_arg, crocket_mode, crocket_socket, crocket_current_state)
       IN  /\ crocket_mode' = r.mode
           /\ crocket_socket' = r.sock
           /\ crocket_current_state' = r.state
  /\ last' = IF crocket_mode = CROCKET_MODE_CLIENT /\ crocket_mode' = CROCKET_MODE_PLAYER
             THEN (IF CROCKET_STATE_PLAYING \in crocket_current_state
                   THEN "to_player" ELSE "to_player_paused")
             ELSE "other"
  /\ UNCHANGED <<crocket_tracks, crocket_timescale, crocket_save_file, crocket_current_row,
                 host_vars, p_time, row, pc, caller, ti, arg, nmsg, hs, call>>
  /\ inbox' = Stream(crocket_socket')

\* crocket_done: the tracks after freeing every key array
done_tracks == [i \in TrackIds |-> EmptyTrack]

crocket_done ==
  /\ pc = "idle"
  /\ UNCHANGED <<harness, disk>>
  /\ LET d == disconnect(crocket_socket, crocket_current_state)
     IN  /\ crocket_socket' = d.sock
         /\ crocket_current_state' = d.state
  /\ crocket_save_file' = "NULL"
  /\ crocket_tracks' = done_tracks
  /\ last' = "other"
  /\ UNCHANGED <<crocket_timescale, crocket_mode, crocket_current_row, host_vars, p_time,
                 row, pc, caller, ti, arg, nmsg, hs, call>>
  /\ inbox' = Stream(crocket_socket')

\* crocket_init(a.save_file, a.data, rpm) up to its call of reconnect()
crocket_init(Rpms, Hosts, Args) ==
  /\ pc = "idle"
  /\ UNCHANGED <<harness, disk>>
  /\ \E rpm \in Rpms, host \in Hosts, a \in Args :
       /\ crocket_timescale' = DivF(IntToF(rpm), IntToF(60))
       /\ crocket_mode' = IF host = "unresolved" THEN CROCKET_MODE_PLAYER
                          ELSE CROCKET_MODE_CLIENT
       /\ crocket_save_file' = a.save_file
       /\ arg' = a
  /\ crocket_socket' = disconnect(crocket_socket, crocket_current_state).sock
  /\ crocket_tracks' = done_tracks
  /\ crocket_current_state' = {}
  /\ crocket_current_row' = -1
  /\ pc' = "rc"
  /\ caller' = "init"
  /\ call' = NewCall({})
  /\ nmsg' = 0
  /\ last' = "other"
  /\ UNCHANGED <<host_vars, p_time, row, ti, hs>>
  /\ inbox' = Stream(crocket_socket')

\* whether a file name is given ("save_file && save_file[0]")
HasName(save_file) == save_file # "NULL" /\ save_file # ""

\* a faulty variant of init_data that reads the save file even when a data
\* pointer is given
init_data_prefers_file(a, file, read_ok) ==
  IF HasName(a.save_file)
  THEN (IF file.exists /\ read_ok THEN file.bytes ELSE a.data)
  ELSE a.data

\* the data crocket_init hands to load_data (lines 468-482): the data pointer,
\* or the content of the save file when it could be opened and read in full.
\* Files hold the 16 header bytes at least.
init_data(a, file, read_ok) ==
  IF HasName(a.save_file) /\ a.data = <<>>
  THEN (IF file.exists /\ read_ok THEN file.bytes ELSE <<>>)
  ELSE a.data

\* whether load_data(data) writes past dummy_key when its malloc fails
load_data_overruns(data) ==
  /\ data # <<>>
  /\ HeaderMatches(data)
  /\ LET c == get_leb128(data, CTF_FILE_HEADER_LENGTH + 1)
     IN  load_overruns(data, c.pos, c.val)

\* crocket_init after reconnect(): without a connection, fall back to player
\* mode and load the data. Where load_data writes past dummy_key the outcome
\* is not defined; the tracks may end with or without the keys of the image.
crocket_init_return ==
  /\ pc = "fin"
  /\ UNCHANGED <<harness, disk>>
  /\ IF CROCKET_STATE_CONNECTED \notin crocket_current_state
     THEN LET r == set_mode(CROCKET_MODE_PLAYER, crocket_mode, crocket_socket,
                            crocket_current_state)
          IN  /\ crocket_mode' = r.mode
              /\ crocket_socket' = r.sock
              /\ crocket_current_state' = r.state
              /\ \E read_ok \in BOOLEAN, malloc_ok \in BOOLEAN :
                   LET data == init_data(arg, disk, read_ok)
                       ub   == ~malloc_ok /\ load_data_overruns(data)
                   IN  /\ IF ub
                          THEN crocket_tracks' \in
                                 {load_data(data, crocket_tracks, ok) : ok \in BOOLEAN}
                                 \cup {crocket_tracks}
                          ELSE crocket_tracks' = load_data(data, crocket_tracks, malloc_ok)
                       /\ call' = [NoCall EXCEPT
                                     !.load = IF ub THEN "undefined"
                                              ELSE IF malloc_ok THEN "loaded" ELSE "nomem",
                                     !.data = data]
     ELSE /\ UNCHANGED <<crocket_mode, crocket_socket, crocket_current_state,
                         crocket_tracks>>
          /\ call' = [NoCall EXCEPT !.load = "skipped"]
  /\ pc' = "idle"
  /\ caller' = "none"
  /\ arg' = NoArg
  /\ last' = "init"
  /\ UNCHANGED <<crocket_timescale, crocket_save_file, crocket_current_row,
                 host_vars, p_time, row, ti, nmsg, hs>>
  /\ inbox' = Stream(crocket_socket')

\* crocket_get_value(p_var, time): p_var is the variable bound to track p_var,
\* or to no track when it is not in 1..ntracks
crocket_get_value(tr, timescale, p_var, time) ==
  IF p_var \in TrackIds THEN sample(tr[p_var], MulF(time, timescale)) ELSE ZeroF

crocket_get_value_call(Ts) ==
  /\ pc = "idle"
  /\ \E p_var \in 1..(ntracks + 1), time \in Ts :
       result' = [stage |-> "value", p_var |-> p_var, time |-> time,
                  value |-> crocket_get_value(crocket_tracks, crocket_timescale,
                                              p_var, time)]
  /\ UNCHANGED <<probe, disk, inbox>>
  /\ UNCHANGED <<crocket_tracks, crocket_current_state, crocket_timescale,
                 crocket_save_file, crocket_mode, crocket_current_row, crocket_socket,
                 host_vars, p_time, row, pc, caller, ti, arg, nmsg, hs, call, last>>

\* crocket_update(NULL): returns the bitmask and does nothing else
crocket_update_null ==
  /\ pc = "idle"
  /\ UNCHANGED <<harness, disk>>
  /\ pc' = "ret"
  /\ caller' = "update_null"
  /\ call' = NewCall(crocket_current_state)
  /\ UNCHANGED <<crocket_tracks, crocket_current_state, crocket_timescale,
                 crocket_save_file, crocket_mode, crocket_current_row, crocket_socket,
                 host_vars, p_time, row, ti, arg, nmsg, hs, last>>
  /\ inbox' = Stream(crocket_socket')

\* crocket_update(&time) up to its call of reconnect()
crocket_update(Ts) ==
  /\ pc = "idle"
  /\ UNCHANGED <<harness, disk>>
  /\ \E time \in Ts :
       /\ p_time' = time
       /\ row' = LET r == MulF(time, crocket_timescale)
                 IN  IF LtZeroF(r) THEN ZeroF ELSE r
  /\ pc' = "rc"
  /\ caller' = "update"
  /\ call' = NewCall(crocket_current_state)
  /\ nmsg' = 0
  /\ UNCHANGED <<crocket_tracks, crocket_current_state, crocket_timescale,
                 crocket_save_file, crocket_mode, crocket_current_row, crocket_socket,
                 host_vars, ti, arg, hs, last>>
  /\ inbox' = Stream(crocket_socket')

\* the row crocket_update samples at when the server ordered a seek
seek_row(current_row) ==
  IF current_row # 0 THEN AddF(IntToF(current_row), F(1, -16)) ELSE ZeroF

SetRowCmd(r) == [cmd |-> 3, row |-> r]

\* a faulty variant of the test that takes every row for a new one
row_always_changed(new_row, current_row) == TRUE

\* "if a new row started"
row_changed(new_row, current_row) == new_row # current_row

\* crocket_update after handle_messages(0): time update, save to file, sampling
crocket_update_time ==
  /\ pc = "time"
  /\ UNCHANGED harness
  /\ IF CROCKET_EVENT_SEEK \in crocket_current_state
     THEN /\ row' = seek_row(crocket_current_row)
          /\ p_time' = DivF(row', crocket_timescale)
          /\ UNCHANGED <<crocket_current_row, crocket_current_state, crocket_socket, call>>
     ELSE LET new_row == TruncF(row)
          IN  /\ UNCHANGED <<row, p_time>>
              /\ crocket_current_row' = new_row
              /\ IF ~row_changed(new_row, crocket_current_row) \/ xsend_skips(crocket_socket)
                 THEN UNCHANGED <<crocket_current_state, crocket_socket, call>>
                 ELSE \/ \* SET_ROW is sent
                         /\ call' = [Syscall(call, crocket_socket) EXCEPT
                                       !.sent = Append(@, SetRowCmd(new_row))]
                         /\ UNCHANGED <<crocket_current_state, crocket_socket>>
                      \/ \* send() fails
                         /\ LET d == disconnect(crocket_socket, crocket_current_state)
                            IN  /\ crocket_current_state' = d.state
                                /\ crocket_socket' = d.sock
                         /\ call' = [DisconnectCall(Syscall(call, crocket_socket),
                                                    crocket_socket)
                                       EXCEPT !.failed = TRUE]
  /\ IF CROCKET_EVENT_SAVE \in crocket_current_state /\ HasName(crocket_save_file)
     THEN \E written \in BOOLEAN :   \* malloc and fopen succeed or not
            disk' = IF written
                    THEN [exists |-> TRUE, bytes |-> crocket_get_data(crocket_tracks)]
                    ELSE disk
     ELSE UNCHANGED disk
  /\ host_vars' = [i \in TrackIds |-> sample(crocket_tracks[i], row')]
  /\ pc' = "ret"
  /\ UNCHANGED <<crocket_tracks, crocket_timescale, crocket_save_file, crocket_mode,
                 caller, ti, arg, nmsg, hs, last>>
  /\ inbox' = Stream(crocket_socket')

\* a faulty variant of the clearing that keeps the events
update_keeps_events(state) == state

\* "clear the event part" of the bitmask
update_clears(state) == state \cap StateBits

\* crocket_update returns res = crocket_current_state and clears the events
crocket_update_return ==
  /\ pc = "ret"
  /\ UNCHANGED <<harness, disk>>
  /\ crocket_current_state' =
       IF caller = "update" THEN update_clears(crocket_current_state)
       ELSE crocket_current_state
  /\ pc' = "idle"
  /\ caller' = "none"
  /\ call' = NoCall
  /\ p_time' = ZeroF
  /\ row' = ZeroF
  /\ last' = "other"
  /\ UNCHANGED <<crocket_tracks, crocket_timescale, crocket_save_file, crocket_mode,
                 crocket_current_row, crocket_socket, host_vars, ti, arg, nmsg, hs>>
  /\ inbox' = Stream(crocket_socket')

---------------------------------------------------------------------------
(* Specification                                                           *)

\* values and rows the server sends in this model
\* (an action number of -7 is the word 4294967289)
KeyRows == {2}
KeyValues == {F(1, 0)}
KeyInterpols == {1}
SeekRows == {64}
ActionNumbers == {0, -7}

ServerMsgs ==
  {SetKeyMsg(i, r, v, p) : i \in {0}, r \in KeyRows, v \in KeyValues, p \in KeyInterpols}
  \cup {DeleteKeyMsg(i, r) : i \in {0}, r \in KeyRows}
  \cup {SetRowMsg(r) : r \in SeekRows}
  \cup {PauseMsg(f) : f \in {0, 1}}
  \cup {SaveMsg, UnknownMsg}
  \cup {ActionMsg(n) : n \in ActionNumbers}

Init ==
  /\ crocket_tracks = [i \in TrackIds |-> EmptyTrack]
  /\ crocket_current_state = {}
  /\ crocket_timescale = F(1, 0)
  /\ crocket_save_file = "NULL"
  /\ crocket_mode = 0
  /\ crocket_current_row = -1
  /\ crocket_socket = INVALID_SOCKET
  /\ host_vars = [i \in TrackIds |-> ZeroF]
  /\ p_time = ZeroF
  /\ row = ZeroF
  /\ pc = "idle"
  /\ caller = "none"
  /\ ti = 1
  /\ arg = NoArg
  /\ nmsg = 0
  /\ hs = NoHs
  /\ call = NoCall
  /\ last = "none"
  /\ probe = NoProbe
  /\ result = NoResult
  /\ disk = NoFile
  /\ inbox = <<>>

Next ==
  \/ crocket_init({60}, HostOutcomes, {NoArg})
  \/ reconnect
  \/ reconnect_get_track
  \/ handle_messages(ServerMsgs)
  \/ crocket_init_return
  \/ crocket_update({F(2, 0)})
  \/ crocket_update_null
  \/ crocket_update_time
  \/ crocket_update_return
  \/ crocket_set_mode(ModeArgs)
  \/ crocket_done

Spec == Init /\ [][Next]_vars

---------------------------------------------------------------------------
(* The track store under key edits: the session with a server that sends   *)
(* SET_KEY and DELETE_KEY for rows on both sides of 2^31 and for a track   *)
(* index outside the registry                                              *)

EditRows == {1, 3, -1}
EditInterpols == {0, 1}
EditTracks == {0, 1, NTracks}

KeyMsgs ==
  {SetKeyMsg(i, r, F(1, 0), p) : i \in EditTracks, r \in EditRows, p \in EditInterpols}
  \cup {DeleteKeyMsg(i, r) : i \in EditTracks, r \in EditRows}

NextKeys ==
  \/ crocket_init({60}, {"unset"}, {NoArg})
  \/ reconnect
  \/ reconnect_get_track
  \/ handle_messages(KeyMsgs)
  \/ crocket_init_return
  \/ crocket_update({ZeroF})
  \/ crocket_update_time
  \/ crocket_update_return

SpecKeys == Init /\ [][NextKeys]_vars

---------------------------------------------------------------------------
(* Seeking: the session with a server that sets keys on the first track    *)
(* and orders seeks, among them to row 0, to a row where a float has no    *)
(* room for the 1/65536 offset, and to row 2^31                            *)

SeekToRows == {0, 64, 256, MinInt}

SeekMsgs ==
  {SetKeyMsg(0, 0, ZeroF, 1), SetKeyMsg(0, 128, F(1, 0), 1)}
  \cup {SetRowMsg(r) : r \in SeekToRows}

NextSeek ==
  \/ crocket_init(RPMs, {"unset"}, {NoArg})
  \/ reconnect
  \/ reconnect_get_track
  \/ handle_messages(SeekMsgs)
  \/ crocket_init_return
  \/ crocket_update(Times)
  \/ crocket_update_time
  \/ crocket_update_return

SpecSeek == Init /\ [][NextSeek]_vars

---------------------------------------------------------------------------
(* Properties                                                              *)

Mask == crocket_current_state
Events(state) == state \ StateBits
InUpdate == caller = "update"
UpdateReturns == pc = "ret" /\ caller = "update"

StrictlyIncreasing(keys) ==
  \A j \in 1..(Len(keys) - 1) : ULt(keys[j].row, keys[j + 1].row)

\* C1: after any sequence of set_key, delete_key and handshake clears, the
\* rows of every track are strictly increasing (as unsigned numbers): sorted
\* and without duplicates.
C1_RowsStrictlyIncreasing ==
  \A i \in TrackIds : StrictlyIncreasing(crocket_tracks[i].keys)

\* a key was inserted between two others, and a row above 2^31 is present
C1_Witness ==
  \E i \in TrackIds :
    /\ Len(crocket_tracks[i].keys) = 3
    /\ crocket_tracks[i].keys[3].row < 0
    /\ nmsg > 0

\* the step in which crocket_update(&time) returns
UpdateReturnStep == pc = "ret" /\ caller = "update" /\ pc' = "idle"
\* the step in which crocket_init starts
InitStep == pc = "idle" /\ caller' = "init"
\* a step in which a message was received and handled
MessageStep == nmsg' = nmsg + 1

PlayStop == {CROCKET_EVENT_PLAY, CROCKET_EVENT_STOP}

\* C2 as stated: the return of crocket_update(&time) leaves only PLAYING and
\* CONNECTED in the stored state, and the mask it returns holds every event
\* that was pending when the update began; crocket_update(NULL),
\* crocket_set_mode and crocket_done discard no event.
C2_AsStated ==
  [][/\ UpdateReturnStep =>
          /\ Mask' = Mask \cap StateBits
          /\ call.pending \subseteq Mask
     /\ (pc = "ret" /\ caller = "update_null") => Mask' = Mask
     /\ (pc = "idle" /\ pc' = "idle") => Events(Mask) \subseteq Mask']_vars

\* C2: event bits are one-shot and latched. The return of crocket_update(&time)
\* leaves only PLAYING and CONNECTED in the stored state, and the mask it
\* returns holds every event that was pending when the update began, except
\* that a PAUSE message received in that update may have replaced a pending
\* PLAY by STOP or a pending STOP by PLAY. crocket_init discards the whole
\* mask. Every other step keeps each event bit that is set, except for that
\* replacement by a received PAUSE message.
C2_EventsOneShotAndLatched ==
  [][/\ UpdateReturnStep =>
          /\ Mask' = Mask \cap StateBits
          /\ call.pending \ PlayStop \subseteq Mask
          /\ \A e \in PlayStop \cap call.pending :
               \/ e \in Mask
               \/ call.paused /\ (PlayStop \ {e}) \subseteq Mask
     /\ InitStep => Mask' = {}
     /\ (~UpdateReturnStep /\ ~InitStep) =>
          /\ Events(Mask) \ PlayStop \subseteq Mask'
          /\ \A e \in PlayStop \cap Mask :
               \/ e \in Mask'
               \/ MessageStep /\ (PlayStop \ {e}) \subseteq Mask']_vars

\* an update returns a mask in which a PAUSE message has replaced the PLAY that
\* was pending when the update began, next to an event it raised itself
C2_Witness ==
  /\ UpdateReturns
  /\ CROCKET_EVENT_PLAY \in call.pending
  /\ call.paused
  /\ CROCKET_EVENT_PLAY \notin Mask
  /\ CROCKET_EVENT_STOP \in Mask
  /\ CROCKET_EVENT_CONNECT \in Mask

\* C3: the first update after a crocket_init that returned CROCKET_MODE_PLAYER
\* returns a mask with PLAYING and PLAY set, whatever kept the connection from
\* being established.
C3_PlayerInitReportsPlay ==
  (pc = "ret" /\ last = "init" /\ crocket_mode = CROCKET_MODE_PLAYER)
    => {CROCKET_STATE_PLAYING, CROCKET_EVENT_PLAY} \subseteq Mask

\* C4: in player mode the socket is closed, and an update running in player
\* mode has made no connection attempt and no system call on a socket and has
\* sent nothing.
C4_PlayerModeNoSocket ==
  crocket_mode = CROCKET_MODE_PLAYER =>
    /\ crocket_socket = INVALID_SOCKET
    /\ caller \in {"update", "update_null"} =>
         call.attempts = 0 /\ call.io = "none" /\ call.sent = <<>>

\* an update returns in player mode after a session that had been connected
C4_Witness ==
  /\ UpdateReturns
  /\ crocket_mode = CROCKET_MODE_PLAYER
  /\ hs.settled
  /\ CROCKET_EVENT_DISCONNECT \in Mask

\* what C5 asks of an update: one connection attempt when it began without
\* CONNECTED, none when it began with it
AttemptsAsClaimed ==
  call.attempts = (IF call.conn0 THEN 0 ELSE 1)

\* C5 as stated: in client mode every crocket_update, whatever its argument,
\* has made one connection attempt when it returns if CONNECTED was clear at
\* its start, and none if it was set.
C5_AsStated ==
  (pc = "ret" /\ crocket_mode = CROCKET_MODE_CLIENT) => AttemptsAsClaimed

\* C5: in client mode a crocket_update called with a time pointer makes exactly
\* one connection attempt if CONNECTED was clear at its start and none if it
\* was set (once reconnect() was called, the count stays until the return);
\* crocket_update(NULL) makes none.
C5_OneAttemptPerUpdate ==
  /\ (InUpdate /\ pc # "rc" /\ crocket_mode = CROCKET_MODE_CLIENT) => AttemptsAsClaimed
  /\ InUpdate => call.attempts <= 1
  /\ caller = "update_null" => call.attempts = 0

\* an update that began without CONNECTED returns connected after its one
\* attempt
C5_Witness ==
  /\ UpdateReturns
  /\ crocket_mode = CROCKET_MODE_CLIENT
  /\ ~call.conn0
  /\ call.attempts = 1
  /\ CROCKET_STATE_CONNECTED \in Mask

HandshakeCompleted == hs.greeted /\ hs.get_track = ntracks /\ hs.settled

\* C6: whenever CONNECTED is set, the latest connection attempt completed its
\* handshake: the greeting matched, GET_TRACK was sent for every track, and
\* the settle drain ended without an I/O failure.
C6_ConnectedImpliesHandshake ==
  CROCKET_STATE_CONNECTED \in Mask => HandshakeCompleted

\* C7: once a send, recv or select has failed in an update that began with
\* CONNECTED set, DISCONNECT is set and CONNECTED is clear (up to and in the
\* returned mask), the socket is closed and no system call is made on it, and
\* the mode is still client mode.
C7_FailureDisconnects ==
  (InUpdate /\ call.conn0 /\ call.failed) =>
    /\ CROCKET_EVENT_DISCONNECT \in Mask
    /\ CROCKET_STATE_CONNECTED \notin Mask
    /\ crocket_socket = INVALID_SOCKET
    /\ call.io = "closed"
    /\ crocket_mode = CROCKET_MODE_CLIENT

\* an update that began connected returns after a failure that followed a
\* received message
C7_Witness ==
  /\ UpdateReturns
  /\ call.conn0
  /\ call.failed
  /\ nmsg > 0

BadGreeting == call.outcome = "bad_greeting"

\* C8 as stated: after a connection attempt that met a wrong greeting, the
\* socket is closed, DISCONNECT is set and the mode is client mode.
C8_AsStated ==
  BadGreeting =>
    /\ crocket_socket = INVALID_SOCKET
    /\ CROCKET_EVENT_DISCONNECT \in Mask
    /\ crocket_mode = CROCKET_MODE_CLIENT

\* C8: after a connection attempt that met a wrong greeting, the socket is
\* closed, CONNECTED is clear, DISCONNECT is as it was when the call began (the
\* attempt does not raise it), and the mode is still client mode until the call
\* returns: crocket_update leaves it so, crocket_init falls back to player
\* mode.
C8_BadGreeting ==
  [][/\ BadGreeting' =>
          /\ crocket_socket' = INVALID_SOCKET
          /\ CROCKET_STATE_CONNECTED \notin Mask'
          /\ (CROCKET_EVENT_DISCONNECT \in Mask') = (CROCKET_EVENT_DISCONNECT \in call'.pending)
          /\ crocket_mode' = CROCKET_MODE_CLIENT
     /\ (BadGreeting /\ pc = "ret") => crocket_mode' = CROCKET_MODE_CLIENT
     /\ (BadGreeting /\ pc = "fin") => crocket_mode' = CROCKET_MODE_PLAYER]_vars

\* an update returns after meeting a wrong greeting, without DISCONNECT
C8_Witness ==
  /\ UpdateReturns
  /\ BadGreeting
  /\ CROCKET_EVENT_DISCONNECT \notin Mask
  /\ call.sent = <<GreetMsg>>

ToPlayer == {"to_player", "to_player_paused"}

\* C9: from crocket_set_mode(PLAYER) called in client mode until the next
\* update has returned its mask, the socket is closed, CONNECTED is clear and
\* PLAYING and PLAY are set, whether or not playback was paused; no call makes
\* a connection attempt in player mode; and player mode is left only by an API
\* call made by the host (crocket_set_mode or a new crocket_init).
C9_SetModePlayer ==
  [][/\ last' \in ToPlayer =>
          /\ crocket_mode' = CROCKET_MODE_PLAYER
          /\ crocket_socket' = INVALID_SOCKET
          /\ CROCKET_STATE_CONNECTED \notin Mask'
          /\ {CROCKET_STATE_PLAYING, CROCKET_EVENT_PLAY} \subseteq Mask'
     /\ crocket_mode' = CROCKET_MODE_PLAYER => call'.attempts = 0
     /\ (crocket_mode = CROCKET_MODE_PLAYER /\ crocket_mode' = CROCKET_MODE_CLIENT)
          => (pc = "idle" /\ pc' \in {"idle", "rc"} /\ caller' \in {"none", "init"})]_vars

\* the update after a crocket_set_mode(PLAYER) that ended a paused, connected
\* session returns
C9_Witness ==
  /\ UpdateReturns
  /\ last = "to_player_paused"
  /\ hs.settled
  /\ CROCKET_EVENT_DISCONNECT \in Mask

\* the row C10 names for a seek to row r (an unsigned word): r + 1/65536, and
\* exactly 0 for r = 0
CorrectedRow(r) == IF r = 0 THEN ZeroF ELSE AddF(UIntToF(r), F(1, -16))

IsSetRow(m) == "cmd" \in DOMAIN m /\ m.cmd = 3

\* C10: an update that drained SET_ROW(r), r being the last one drained,
\* returns SEEK, has written (r + 1/65536) / timescale (0 for r = 0) through
\* the time pointer, has sampled every variable at that row, and has sent no
\* SET_ROW.
C10_SeekWritesTime ==
  (UpdateReturns /\ call.seek_row # <<>>) =>
    LET r == call.seek_row[1]
    IN  /\ CROCKET_EVENT_SEEK \in Mask
        /\ \A j \in 1..Len(call.sent) : ~IsSetRow(call.sent[j])
        /\ p_time = DivF(CorrectedRow(r), crocket_timescale)
        /\ host_vars = [i \in TrackIds |-> sample(crocket_tracks[i], CorrectedRow(r))]

\* the step in which crocket_update does its time update and sampling
TimeStep == pc = "time"
\* the integer part of max(0, time * timescale) in that step
HostRow == TruncF(row)
Seeking == CROCKET_EVENT_SEEK \in Mask

\* C11 as stated, for an update whose socket is open and whose send does not
\* fail: without SEEK the update sends SET_ROW(n) exactly when n differs from
\* editor_row, and nothing otherwise; after the update editor_row is n, unless
\* a SET_ROW was drained in this update, and then it is the server's row.
C11_AsStated ==
  [][TimeStep =>
       /\ (~Seeking /\ crocket_socket # INVALID_SOCKET /\ call'.failed = call.failed) =>
            call'.sent = IF HostRow # crocket_current_row
                         THEN Append(call.sent, SetRowCmd(HostRow))
                         ELSE call.sent
       /\ crocket_current_row' = IF call.seek_row # <<>> THEN call.seek_row[1]
                                 ELSE HostRow]_vars

\* C11: in the time update of crocket_update, when SEEK is set (by a SET_ROW
\* drained in this update, or still pending from the handshake of crocket_init
\* or of an earlier call) nothing is sent and editor_row stays the server's
\* row. When SEEK is clear no SET_ROW was drained, editor_row becomes n, and
\* SET_ROW(n) is sent exactly when n differs from the old editor_row and the
\* socket is open; that send either succeeds or fails and disconnects.
C11_SetRowSent ==
  [][TimeStep =>
       IF Seeking
       THEN /\ call'.sent = call.sent
            /\ crocket_current_row' = crocket_current_row
            /\ call.seek_row # <<>> => crocket_current_row = call.seek_row[1]
       ELSE /\ call.seek_row = <<>>
            /\ crocket_current_row' = HostRow
            /\ IF HostRow # crocket_current_row /\ crocket_socket # INVALID_SOCKET
               THEN \/ call'.sent = Append(call.sent, SetRowCmd(HostRow))
                       /\ call'.failed = call.failed
                       /\ crocket_socket' = crocket_socket
                    \/ call'.sent = call.sent
                       /\ call'.failed
                       /\ crocket_socket' = INVALID_SOCKET
               ELSE /\ call'.sent = call.sent
                    /\ call'.failed = call.failed
                    /\ crocket_socket' = crocket_socket]_vars

\* a connected update has drained a message and sent SET_ROW for the new row
\* of the host
C11_Witness ==
  /\ UpdateReturns
  /\ call.conn0
  /\ nmsg > 0
  /\ call.sent = <<SetRowCmd(crocket_current_row)>>
  /\ crocket_current_row > 0
  /\ ~Seeking

\* the track a key message is for ("none" when its index is out of range)
EditedTrack(m) ==
  IF ULt(m.track_index, ntracks) THEN crocket_tracks[m.track_index + 1] ELSE EmptyTrack

\* what the last key message drained by this update left in its track: a
\* SET_KEY its key (or, when realloc() failed, a track without keys and without
\* memory), a DELETE_KEY no key at its row
EditInStore(m) ==
  LET t == EditedTrack(m)
  IN  IF m.cmd = 0
      THEN \/ t = EmptyTrack
           \/ \E j \in 1..Len(t.keys) : t.keys[j] = Key(m.row, m.value, m.interpol)
      ELSE \A j \in 1..Len(t.keys) : t.keys[j].row # m.row

\* C12: when crocket_update returns, the last SET_KEY or DELETE_KEY received by
\* its message drain is in the track store, and the value written to every
\* variable is the sample of that store at the update's row: 0 for a track
\* without keys, the key's value for a track with one key.
C12_DrainBeforeSampling ==
  UpdateReturns =>
    /\ \A j \in 1..Len(call.edit) :
         ULt(call.edit[j].track_index, ntracks) => EditInStore(call.edit[j])
    /\ \A i \in TrackIds :
         LET t == crocket_tracks[i]
         IN  /\ host_vars[i] = sample(t, row)
             /\ Len(t.keys) = 0 => host_vars[i] = ZeroF
             /\ Len(t.keys) = 1 => host_vars[i] = t.keys[1].value

\* an update returns after its drain received a SET_KEY that gave the second
\* track its first key, and the variable reads the key's value
C12_Witness ==
  /\ UpdateReturns
  /\ call.edit # <<>>
  /\ call.edit[1].cmd = 0
  /\ call.edit[1].track_index = 1
  /\ Len(crocket_tracks[2].keys) = 1
  /\ host_vars[2] = call.edit[1].value
  /\ host_vars[2] # ZeroF

---------------------------------------------------------------------------
(* LEB128 on its own: put_leb128 writes a value, get_leb128 reads it back   *)
(* from a buffer in which other bytes follow                               *)

LebValues ==
  {Pow2(k) : k \in 0..30} \cup {Pow2(k) - 1 : k \in 0..30}
  \cup {MaxInt, MinInt, MinInt + 1, -1, -2, -128, -129, 300, 65537}

LebTails == {<<>>, <<129, 1>>}

InitSession ==
  /\ crocket_tracks = [i \in TrackIds |-> EmptyTrack]
  /\ crocket_current_state = {}
  /\ crocket_timescale = F(1, 0)
  /\ crocket_save_file = "NULL"
  /\ crocket_mode = 0
  /\ crocket_current_row = -1
  /\ crocket_socket = INVALID_SOCKET
  /\ host_vars = [i \in TrackIds |-> ZeroF]
  /\ p_time = ZeroF
  /\ row = ZeroF
  /\ pc = "idle"
  /\ caller = "none"
  /\ ti = 1
  /\ arg = NoArg
  /\ nmsg = 0
  /\ hs = NoHs
  /\ call = NoCall
  /\ last = "none"
  /\ disk = NoFile
  /\ inbox = <<>>

session == <<crocket_tracks, crocket_current_state, crocket_timescale, crocket_save_file,
             crocket_mode, crocket_current_row, crocket_socket, host_vars, p_time, row,
             pc, caller, ti, arg, nmsg, hs, call, last, disk, inbox>>

InitLeb ==
  /\ InitSession
  /\ \E v \in LebValues, tail \in LebTails : probe = [fn |-> "leb128", val |-> v, tail |-> tail]
  /\ result = NoResult

put_leb128_call ==
  /\ probe.fn = "leb128"
  /\ result.stage = "none"
  /\ result' = [stage |-> "put", bytes |-> put_leb128(probe.val)]
  /\ UNCHANGED <<probe, session>>

get_leb128_call ==
  /\ probe.fn = "leb128"
  /\ result.stage = "put"
  /\ LET r == get_leb128(result.bytes \o probe.tail, 1)
     IN  result' = [stage |-> "got", bytes |-> result.bytes, val |-> r.val,
                    used |-> r.pos - 1]
  /\ UNCHANGED <<probe, session>>

NextLeb == put_leb128_call \/ get_leb128_call

SpecLeb == InitLeb /\ [][NextLeb]_vars

\* C14: for every unsigned 32-bit value v, put_leb128 writes at most 5 bytes,
\* and get_leb128 applied to them returns v and consumes exactly these bytes,
\* whatever follows them.
C14_Leb128RoundTrip ==
  /\ result.stage \in {"put", "got"} =>
       Len(result.bytes) >= 1 /\ Len(result.bytes) <= MAX_LEB128_SIZE
  /\ result.stage = "got" =>
       result.val = probe.val /\ result.used = Len(result.bytes)

\* a value of 2^31 or more was written in 5 bytes and read back from a buffer
\* with more bytes behind it
C14_Witness ==
  /\ result.stage = "got"
  /\ probe.val < 0
  /\ probe.tail # <<>>
  /\ Len(result.bytes) = 5
  /\ result.val = probe.val


---------------------------------------------------------------------------
(* The CTF codec on its own: one process serialises its registry, another  *)
(* one, whose tracks are all empty, loads the image                         *)

\* the key arrays a track of the serialising process may hold
CtfKeys ==
  { <<>>,
    <<Key(0, F(1, 0), 1)>>,
    <<Key(5, F(-3, -1), 0), Key(6, ZeroF, 255), Key(300, F(5, 2), 2)>>,
    <<Key(127, F(-1, 0), 3), Key(128, F(1, -3), 1), Key(MinInt, F(7, 0), 0),
      Key(-1, F(-5, 4), 128)>>,
    <<Key(MaxInt, F(3, 0), 2), Key(MinInt, F(16777215, -24), 1)>>,
    <<Key(16384, F(-16777215, 3), 7)>> }

CtfTracks == [TrackIds -> {[alloc |-> Len(ks), keys |-> ks] : ks \in CtfKeys}]

InitCtf ==
  /\ InitSession
  /\ \E S \in CtfTracks : probe = [fn |-> "ctf", tracks |-> S]
  /\ result = NoResult

\* crocket_get_data() in the serialising process; it returns NULL when malloc
\* fails
crocket_get_data_call ==
  /\ probe.fn = "ctf"
  /\ result.stage = "none"
  /\ \E malloc_ok \in BOOLEAN :
       result' = IF malloc_ok
                 THEN [stage |-> "image", data |-> crocket_get_data(probe.tracks),
                       size |-> get_data_size(probe.tracks, 1)]
                 ELSE [stage |-> "null"]
  /\ UNCHANGED <<probe, session>>

\* load_data(image) in the loading process. Where load_data writes past
\* dummy_key the outcome is not defined: the tracks may end in any state.
load_data_call ==
  /\ probe.fn = "ctf"
  /\ result.stage = "image"
  /\ \E malloc_ok \in BOOLEAN :
       LET ub == ~malloc_ok /\ load_data_overruns(result.data)
       IN  /\ result' = [stage |-> "loaded", data |-> result.data, size |-> result.size,
                         malloc_ok |-> malloc_ok, ub |-> ub]
           /\ IF ub
              THEN crocket_tracks' \in CtfTracks
              ELSE crocket_tracks' = load_data(result.data, crocket_tracks, malloc_ok)
  /\ UNCHANGED <<probe, crocket_current_state, crocket_timescale, crocket_save_file,
                 crocket_mode, crocket_current_row, crocket_socket, host_vars, p_time,
                 row, pc, caller, ti, arg, nmsg, hs, call, last, disk, inbox>>

NextCtf == crocket_get_data_call \/ load_data_call

SpecCtf == InitCtf /\ [][NextCtf]_vars

NonEmptyTracks(tr) == {i \in TrackIds : Len(tr[i].keys) # 0}

\* C13: when the allocations of load_data succeed, loading the image that
\* crocket_get_data made of a registry S into a registry whose tracks are all
\* empty gives every track the key sequence (row, value, interpolation) it has
\* in S; the image counts only the tracks that have keys, and a registry
\* without keys gives the bare 17-byte image.
C13_CtfRoundTrip ==
  /\ result.stage \in {"image", "loaded"} =>
       /\ result.data[CTF_FILE_HEADER_LENGTH + 1] = Cardinality(NonEmptyTracks(probe.tracks))
       /\ NonEmptyTracks(probe.tracks) = {} => Len(result.data) = CTF_FILE_HEADER_LENGTH + 1
  /\ result.stage = "loaded" /\ result.malloc_ok =>
       \A i \in TrackIds : crocket_tracks[i].keys = probe.tracks[i].keys

\* a registry with an empty track and a track whose rows reach past 2^31, with
\* negative values and interpolation bytes outside 0..3, came back from its image
C13_Witness ==
  /\ result.stage = "loaded" /\ result.malloc_ok
  /\ \E i \in TrackIds : probe.tracks[i].keys = <<>> /\ crocket_tracks[i].keys = <<>>
  /\ \E i \in TrackIds :
       /\ Len(crocket_tracks[i].keys) = 4
       /\ crocket_tracks[i].keys[4] = Key(-1, F(-5, 4), 128)
       /\ crocket_tracks[i].keys = probe.tracks[i].keys


---------------------------------------------------------------------------
(* Sampling: a player that loads its tracks from a data image and asks for *)
(* values at times before, between and after the keys                       *)

SampleKeys ==
  { <<Key(0, F(1, 0), 1), Key(4, F(3, 0), 1)>>,
    <<Key(2, F(1, 0), 2), Key(4, F(-1, 0), 0)>>,
    <<Key(0, F(5, 0), 0), Key(2, F(7, 0), 3)>>,
    <<Key(1, F(-3, -1), 3)>> }

SampleImages ==
  {crocket_get_data([i \in TrackIds |->
                       IF i = 1 THEN [alloc |-> Len(ks), keys |-> ks] ELSE EmptyTrack]) :
     ks \in SampleKeys}

SampleArgs == {[save_file |-> "NULL", data |-> d] : d \in SampleImages}

SampleTimes == {F(-1, 0), ZeroF, F(1, 0), F(3, 0), F(9, -1), F(5, 0)}

NextSample ==
  \/ crocket_init({60}, {"unresolved"}, SampleArgs)
  \/ reconnect
  \/ handle_messages({})
  \/ crocket_init_return
  \/ crocket_update(SampleTimes)
  \/ crocket_update_time
  \/ crocket_update_return
  \/ crocket_get_value_call(SampleTimes)

SpecSample == Init /\ [][NextSample]_vars

\* a <= n and a >= n for a float a and a row n (rows are small here)
FLeRow(a, n) == IF a.e >= 0 THEN a.m * Pow2(a.e) <= n ELSE a.m <= n * Pow2(0 - a.e)
FGeRow(a, n) == IF a.e >= 0 THEN a.m * Pow2(a.e) >= n ELSE a.m >= n * Pow2(0 - a.e)

\* the value C15 expects of a sample of the keys at query row r, if any
Clamped(keys, r, value) ==
  /\ FLeRow(r, keys[1].row) => value = keys[1].value
  /\ FGeRow(r, keys[Len(keys)].row) => value = keys[Len(keys)].value

\* C15: for every non-empty track and every query row r = time * timescale,
\* negative ones included, the value crocket_update writes and the value
\* crocket_get_value returns is the first key's value when r <= first key's
\* row and the last key's value when r >= last key's row.
C15_AsStated ==
  /\ UpdateReturns =>
       \A i \in TrackIds :
         crocket_tracks[i].keys # <<>> =>
           Clamped(crocket_tracks[i].keys, MulF(p_time, crocket_timescale), host_vars[i])
  /\ (/\ result.stage = "value"
      /\ result.p_var \in TrackIds
      /\ crocket_tracks[result.p_var].keys # <<>>) =>
         Clamped(crocket_tracks[result.p_var].keys,
                 MulF(result.time, crocket_timescale), result.value)


---------------------------------------------------------------------------
(* Loading: crocket_init with a save file and a data pointer, against a    *)
(* server that may accept, fail half-way, send a key and order a save       *)

LoadKeys(v) == <<Key(1, v, 1), Key(3, F(1, 0), 0)>>

\* the image the data pointer points to, and the image in the save file
DataImage ==
  crocket_get_data([i \in TrackIds |->
                      IF i = 1 THEN [alloc |-> 2, keys |-> LoadKeys(F(3, 0))]
                      ELSE EmptyTrack])
FileImage ==
  crocket_get_data([i \in TrackIds |->
                      IF i = 1 THEN [alloc |-> 2, keys |-> LoadKeys(F(-7, 0))]
                      ELSE EmptyTrack])

LoadArgs == {[save_file |-> f, data |-> d] : f \in {"NULL", "demo.ctf"},
                                            d \in {<<>>, DataImage}}

LoadFiles == {NoFile, [exists |-> TRUE, bytes |-> FileImage]}

LoadMsgs == {SetKeyMsg(1, 3, F(5, 0), 0), SaveMsg}

InitLoad ==
  /\ crocket_tracks = [i \in TrackIds |-> EmptyTrack]
  /\ crocket_current_state = {}
  /\ crocket_timescale = F(1, 0)
  /\ crocket_save_file = "NULL"
  /\ crocket_mode = 0
  /\ crocket_current_row = -1
  /\ crocket_socket = INVALID_SOCKET
  /\ host_vars = [i \in TrackIds |-> ZeroF]
  /\ p_time = ZeroF
  /\ row = ZeroF
  /\ pc = "idle"
  /\ caller = "none"
  /\ ti = 1
  /\ arg = NoArg
  /\ nmsg = 0
  /\ hs = NoHs
  /\ call = NoCall
  /\ last = "none"
  /\ probe = NoProbe
  /\ result = NoResult
  /\ disk \in LoadFiles
  /\ inbox = <<>>

NextLoad ==
  \/ crocket_init({60}, HostOutcomes, LoadArgs)
  \/ reconnect
  \/ reconnect_get_track
  \/ handle_messages(LoadMsgs)
  \/ crocket_init_return
  \/ crocket_update({F(2, 0)})
  \/ crocket_update_time
  \/ crocket_update_return

SpecLoad == InitLoad /\ [][NextLoad]_vars

\* the step in which crocket_init returns
InitReturnStep == pc = "fin" /\ pc' = "idle"

\* the key sequences an image holds, track by track
ImageKeys(data) == load_data(data, [i \in TrackIds |-> EmptyTrack], TRUE)

\* what crocket_init leaves behind when it returns, apart from the number of
\* connection attempts: with the handshake completed, client mode, CONNECTED,
\* an open socket and the tracks as the server left them; otherwise player
\* mode, a closed socket and, unless an allocation failed, the keys of the
\* image for every track the image has keys for. The image is the one at the
\* data pointer, else the content of the save file if it could be read.
InitOutcome ==
  IF call.attempts = 1 /\ HandshakeCompleted
  THEN /\ crocket_mode' = CROCKET_MODE_CLIENT
       /\ CROCKET_STATE_CONNECTED \in crocket_current_state'
       /\ crocket_socket' # INVALID_SOCKET
       /\ crocket_tracks' = crocket_tracks
       /\ call'.load = "skipped"
  ELSE /\ crocket_mode' = CROCKET_MODE_PLAYER
       /\ CROCKET_STATE_CONNECTED \notin crocket_current_state'
       /\ crocket_socket' = INVALID_SOCKET
       /\ call'.load # "skipped"
       /\ call'.data \in
            (IF arg.data # <<>> THEN {arg.data}
             ELSE IF arg.save_file = "demo.ctf" /\ disk.exists THEN {disk.bytes, <<>>}
             ELSE {<<>>})
       /\ call'.load = "loaded" =>
            \A i \in TrackIds :
              ImageKeys(call'.data)[i].keys # <<>> =>
                crocket_tracks'[i].keys = ImageKeys(call'.data)[i].keys

C17_AsStated ==
  (crocket_mode = CROCKET_MODE_PLAYER /\ caller # "init") =>
     /\ \A i \in TrackIds : crocket_tracks[i].keys = <<>>
     /\ UpdateReturns => \A i \in TrackIds : host_vars[i] = ZeroF


\* the last message of edits for the row r
LastAt(edits, r) ==
  edits[CHOOSE j \in 1..Len(edits) :
          /\ edits[j].row = r
          /\ \A h \in (j + 1)..Len(edits) : edits[h].row # r]

\* the rows that a sequence of SET_KEY and DELETE_KEY messages leaves with a key
LiveRows(edits) ==
  {r \in {edits[j].row : j \in 1..Len(edits)} : LastAt(edits, r).cmd = 0}

\* keys are exactly what the messages edits, applied to an empty track, amount to
Replayed(keys, edits) ==
  /\ StrictlyIncreasing(keys)
  /\ {keys[j].row : j \in 1..Len(keys)} = LiveRows(edits)
  /\ \A j \in 1..Len(keys) :
       LET m == LastAt(edits, keys[j].row)
       IN  keys[j] = Key(m.row, m.value, m.interpol)

\* an update in client mode that began without CONNECTED returns after its
\* connection attempt completed the handshake
Resynced ==
  /\ UpdateReturns
  /\ ~call.conn0
  /\ call.attempts = 1
  /\ HandshakeCompleted

\* C18 as stated: the update whose connection attempt completes a handshake
\* returns CONNECT and CONNECTED, and every track holds exactly the keys the
\* server sent for it since its GET_TRACK of this handshake.
C18_AsStated ==
  Resynced =>
    /\ CROCKET_EVENT_CONNECT \in Mask
    /\ CROCKET_STATE_CONNECTED \in Mask
    /\ ~call.nomem =>
         \A i \in TrackIds : Replayed(crocket_tracks[i].keys, call.sync[i])

\* C18: the update whose connection attempt completes a handshake returns
\* CONNECT; it returns CONNECTED too unless a recv, select or send failed in
\* the same update after the handshake, and then it returns DISCONNECT
\* instead. Unless a realloc failed, every track holds exactly the keys that
\* the SET_KEY and DELETE_KEY messages received for it since its GET_TRACK of
\* this handshake amount to, and nothing from before.
C18_Resync ==
  Resynced =>
    /\ CROCKET_EVENT_CONNECT \in Mask
    /\ IF call.failed
       THEN CROCKET_STATE_CONNECTED \notin Mask /\ CROCKET_EVENT_DISCONNECT \in Mask
       ELSE CROCKET_STATE_CONNECTED \in Mask
    /\ ~call.nomem =>
         \A i \in TrackIds : Replayed(crocket_tracks[i].keys, call.sync[i])

\* after a connection loss an update reconnected; the server sent one key for
\* the first track in the handshake and the second track came out empty
C18_Witness ==
  /\ Resynced
  /\ crocket_mode = CROCKET_MODE_CLIENT
  /\ CROCKET_STATE_CONNECTED \in Mask
  /\ Len(call.sync[1]) = 1
  /\ Len(crocket_tracks[1].keys) = 1
  /\ crocket_tracks[2].keys = <<>>


---------------------------------------------------------------------------
(* The track store on its own: find_key and set_key applied to tracks with *)
(* every choice of keys among a few rows                                    *)

StoreRows == {0, 1, 5, 128, MaxInt, MinInt, -1}
QueryRows == StoreRows \cup {2, 127, 129, MinInt + 1, -2}

\* the keys at the rows S, in the order of the rows as unsigned ints
RECURSIVE KeysAt(_)
KeysAt(S) ==
  IF S = {} THEN <<>>
  ELSE LET r == CHOOSE x \in S : \A y \in S : x = y \/ ULt(x, y)
       IN  <<Key(r, IF r % 2 = 0 THEN F(1, 0) ELSE F(-3, 0), r % 4)>> \o KeysAt(S \ {r})

\* a key array is as large as its keys when it was loaded from an image, and
\* holds INITIAL_KEY_ALLOC keys when SET_KEY messages filled it
StoreTrack(S) == {[alloc |-> a, keys |-> KeysAt(S)] : a \in {Cardinality(S), INITIAL_KEY_ALLOC}}

StoreTracks ==
  UNION {{[i \in TrackIds |-> IF i = 1 THEN t ELSE [alloc |-> 2, keys |-> KeysAt({1, 5})]] :
            t \in StoreTrack(S)} : S \in SUBSET StoreRows}

InitStore ==
  /\ InitSession
  /\ \E tr \in StoreTracks : probe = [fn |-> "store", tracks |-> tr]
  /\ result = NoResult

find_key_call ==
  /\ probe.fn = "store"
  /\ result.stage = "none"
  /\ \E r \in QueryRows :
       result' = [stage |-> "found", row |-> r, pos |-> find_key(probe.tracks[1], r)]
  /\ UNCHANGED <<probe, session>>

set_key_call ==
  /\ probe.fn = "store"
  /\ result.stage = "none"
  /\ \E i \in {0, 1, ntracks, -1}, r \in QueryRows, realloc_ok \in BOOLEAN :
       result' = [stage |-> "set", track_index |-> i, row |-> r,
                  realloc_ok |-> realloc_ok,
                  tracks |-> set_key(probe.tracks, i, r, F(9, -1), 2, realloc_ok)]
  /\ UNCHANGED <<probe, session>>

delete_key_call ==
  /\ probe.fn = "store"
  /\ result.stage = "none"
  /\ \E i \in {0, 1, ntracks, -1}, r \in QueryRows :
       result' = [stage |-> "deleted", track_index |-> i, row |-> r,
                  tracks |-> delete_key(probe.tracks, i, r)]
  /\ UNCHANGED <<probe, session>>

\* a second set_key on the same track, after the first one returned
set_key_again_call ==
  /\ probe.fn = "store"
  /\ result.stage = "set"
  /\ \E r \in QueryRows, realloc_ok \in BOOLEAN :
       result' = [stage |-> "set_again", first |-> result, row |-> r,
                  realloc_ok |-> realloc_ok,
                  tracks |-> set_key(result.tracks, result.track_index, r, F(5, 0), 1,
                                     realloc_ok)]
  /\ UNCHANGED <<probe, session>>

NextStore == find_key_call \/ set_key_call \/ delete_key_call \/ set_key_again_call

SpecStore == InitStore /\ [][NextStore]_vars

\* C19: on a track whose rows increase strictly, find_key(t, r) is the number
\* of keys whose row is at most r (rows compared as unsigned ints): 0 on an
\* empty track or before the first key, i+1 at key i or between key i and the
\* next, nkeys at or past the last key.
C19_FindKeyCounts ==
  result.stage = "found" =>
    LET keys == probe.tracks[1].keys
    IN  /\ result.pos = Cardinality({j \in 1..Len(keys) : ~ULt(result.row, keys[j].row)})
        /\ result.pos = 0 <=> (keys = <<>> \/ ULt(result.row, keys[1].row))
        /\ result.pos # 0 =>
             /\ ~ULt(result.row, keys[result.pos].row)
             /\ result.pos < Len(keys) => ULt(result.row, keys[result.pos + 1].row)

\* a row between the fourth and the fifth of seven keys, past 2^31, was found
C19_Witness ==
  /\ result.stage = "found"
  /\ Len(probe.tracks[1].keys) = 7
  /\ result.row = MaxInt
  /\ result.pos = 5

\* the keys of a track other than the one at row r
OtherKeys(t, r) == {t.keys[j] : j \in {h \in 1..Len(t.keys) : t.keys[h].row # r}}

\* set_key had the memory it needed
SetKeyHadMemory ==
  \/ result.realloc_ok
  \/ ~ULt(result.track_index, ntracks)
  \/ LET t == probe.tracks[result.track_index + 1]
     IN  \/ Len(t.keys) < t.alloc
         \/ \E j \in 1..Len(t.keys) : t.keys[j].row = result.row

\* C20: set_key(i, row, v, m) with i < ntracks leaves track i with exactly one
\* key at row, holding v and m, in row order, with every other key of track i
\* and every other track as before (realloc permitting: when it fails the
\* track is emptied instead and the other tracks stay as they are); with
\* i >= ntracks nothing changes.
C20_SetKeyFrame ==
  result.stage = "set" =>
    IF ULt(result.track_index, ntracks)
    THEN LET i  == result.track_index + 1
             t0 == probe.tracks[i]
             t1 == result.tracks[i]
         IN  /\ \A h \in TrackIds \ {i} : result.tracks[h] = probe.tracks[h]
             /\ IF SetKeyHadMemory
                THEN /\ StrictlyIncreasing(t1.keys)
                     /\ Cardinality({j \in 1..Len(t1.keys) :
                                       t1.keys[j].row = result.row}) = 1
                     /\ \E j \in 1..Len(t1.keys) :
                          t1.keys[j] = Key(result.row, F(9, -1), 2)
                     /\ OtherKeys(t1, result.row) = OtherKeys(t0, result.row)
                     /\ Len(t1.keys) = Cardinality(OtherKeys(t0, result.row)) + 1
                ELSE t1 = EmptyTrack
    ELSE result.tracks = probe.tracks

\* a key was inserted between two keys of a full array, and one was overwritten
C20_Witness ==
  /\ result.stage = "set"
  /\ result.track_index = 0
  /\ result.row = 2
  /\ Len(probe.tracks[1].keys) = 7
  /\ probe.tracks[1].alloc = 7
  /\ result.tracks[1].alloc = 14
  /\ result.tracks[1].keys[3] = Key(2, F(9, -1), 2)


\* keys without its keys at row r, in the same order
RECURSIVE WithoutRow(_, _)
WithoutRow(keys, r) ==
  IF keys = <<>> THEN <<>>
  ELSE (IF Head(keys).row = r THEN <<>> ELSE <<Head(keys)>>) \o WithoutRow(Tail(keys), r)

\* C21: delete_key(i, row) with i < ntracks removes from track i the key whose
\* row is exactly row and keeps the other keys, their order and the capacity;
\* it changes nothing when no key has that row (a row between two keys, before
\* or after all keys, an empty track) or when i >= ntracks; the other tracks
\* are never touched.
C21_DeleteKeyFrame ==
  result.stage = "deleted" =>
    IF ULt(result.track_index, ntracks)
    THEN LET i  == result.track_index + 1
             t0 == probe.tracks[i]
             t1 == result.tracks[i]
         IN  /\ \A h \in TrackIds \ {i} : result.tracks[h] = probe.tracks[h]
             /\ t1.keys = WithoutRow(t0.keys, result.row)
             /\ t1.alloc = t0.alloc
             /\ (\A j \in 1..Len(t0.keys) : t0.keys[j].row # result.row) => t1 = t0
    ELSE result.tracks = probe.tracks

\* the fifth of seven keys, at row 2^31 - 1, was removed
C21_Witness ==
  /\ result.stage = "deleted"
  /\ result.track_index = 0
  /\ result.row = MaxInt
  /\ Len(probe.tracks[1].keys) = 7
  /\ Len(result.tracks[1].keys) = 6
  /\ result.tracks[1].keys[5].row = MinInt


---------------------------------------------------------------------------
(* Interpolation on its own: sample applied inside, at the ends of and      *)
(* around one segment, for every interpolation mode                         *)

InterpModes == {0, 1, 2, 3, 4, 255}
InterpValues == {F(1, 0), F(3, 0), F(-1, 0)}

\* a segment from row 4 to row 8, alone or with a key before and behind it
InterpTracks ==
  UNION {{ [alloc |-> 2, keys |-> <<Key(4, l, m), Key(8, r, 1)>>],
           [alloc |-> INITIAL_KEY_ALLOC,
            keys |-> <<Key(0, F(5, 0), 1), Key(4, l, m), Key(8, r, 1), Key(16, F(7, 0), 0)>>] } :
         l \in InterpValues, r \in InterpValues, m \in InterpModes}
  \cup {EmptyTrack}

\* rows 4, 4.5, 5, 6, 7, 7.5, and 3, 8 outside of the segment
InterpRows == {F(4, 0), F(9, -1), F(5, 0), F(6, 0), F(7, 0), F(15, -1), F(3, 0), F(8, 0)}

InitInterp ==
  /\ InitSession
  /\ \E t \in InterpTracks : probe = [fn |-> "sample", track |-> t]
  /\ result = NoResult

sample_call ==
  /\ probe.fn = "sample"
  /\ result.stage = "none"
  /\ \E r \in InterpRows :
       result' = [stage |-> "sampled", row |-> r, value |-> sample(probe.track, r)]
  /\ UNCHANGED <<probe, session>>

NextInterp == sample_call

SpecInterp == InitInterp /\ [][NextInterp]_vars

\* f(t) of the interpolation modes, as the protocol description gives them
Linear(t) == t
Smoothstep(t) == SubF(MulF(F(3, 0), MulF(t, t)), MulF(F(2, 0), MulF(t, MulF(t, t))))
Ramp(t) == MulF(t, t)

\* the value expected at row between the keys L and R
Interpolated(L, R, r) ==
  LET t == DivF(SubF(r, IntToF(L.row)), IntToF(R.row - L.row))
  IN  CASE L.interpol = 1 -> AddF(L.value, MulF(Linear(t), SubF(R.value, L.value)))
        [] L.interpol = 2 -> AddF(L.value, MulF(Smoothstep(t), SubF(R.value, L.value)))
        [] L.interpol = 3 -> AddF(L.value, MulF(Ramp(t), SubF(R.value, L.value)))
        [] OTHER -> L.value

\* r lies in the segment that starts at key j: keys[j].row <= r < keys[j+1].row
InSegment(keys, j, r) ==
  /\ j < Len(keys)
  /\ FGeRow(r, keys[j].row)
  /\ ~FGeRow(r, keys[j + 1].row)

\* C22: sampling at a row inside the segment between the keys L and R gives
\* L.value when L's mode is STEP (0) or unknown (4 and more), and L.value +
\* f(t) * (R.value - L.value) with t = (row - L.row) / (R.row - L.row) and
\* f(t) = t, 3t^2 - 2t^3, t^2 for modes 1, 2, 3; sampling exactly at the row of
\* a key gives that key's value whatever the mode; an empty track gives 0.
\* (Rows and values are such that every intermediate result is exact.)
C22_Interpolation ==
  result.stage = "sampled" =>
    LET keys == probe.track.keys
    IN  /\ keys = <<>> => result.value = ZeroF
        /\ \A j \in 1..Len(keys) :
             /\ InSegment(keys, j, result.row) =>
                  result.value = Interpolated(keys[j], keys[j + 1], result.row)
             /\ result.row = IntToF(keys[j].row) => result.value = keys[j].value

\* a smoothstep segment from 1 to 3 sampled a quarter of the way: 1 + 5/32 * 2
C22_Witness ==
  /\ result.stage = "sampled"
  /\ Len(probe.track.keys) = 4
  /\ probe.track.keys[2] = Key(4, F(1, 0), 2)
  /\ probe.track.keys[3].value = F(3, 0)
  /\ result.row = F(5, 0)
  /\ result.value = F(21, -4)


---------------------------------------------------------------------------
(* Playback control: the session with a server that pauses, resumes and    *)
(* sends actions                                                            *)

PauseMsgs == {PauseMsg(0), PauseMsg(1), PauseMsg(255), SetRowMsg(7), SaveMsg,
              ActionMsg(0), ActionMsg(-8)}

NextPause ==
  \/ crocket_init({60}, {"unset"}, {NoArg})
  \/ reconnect
  \/ reconnect_get_track
  \/ handle_messages(PauseMsgs)
  \/ crocket_init_return
  \/ crocket_update({ZeroF})
  \/ crocket_update_time
  \/ crocket_update_return

SpecPause == Init /\ [][NextPause]_vars

\* a step in which a PAUSE message was received and handled
PauseStep == MessageStep /\ call'.last_msg[1].cmd = 4

PlaybackBits == {CROCKET_EVENT_STOP, CROCKET_EVENT_PLAY, CROCKET_STATE_PLAYING}

\* what handling PAUSE(mode) does to the bitmask
PauseFrame ==
  LET mode == call'.last_msg[1].mode
  IN  /\ crocket_current_state' \cap PlaybackBits =
           (IF mode # 0 THEN {CROCKET_EVENT_STOP}
            ELSE {CROCKET_EVENT_PLAY, CROCKET_STATE_PLAYING})
      /\ crocket_current_state' \ PlaybackBits = crocket_current_state \ PlaybackBits

\* C23 as stated: handling PAUSE(flag) sets STOP and clears PLAY and PLAYING
\* when flag # 0, sets PLAY and PLAYING and clears STOP when flag = 0, and
\* leaves every other bit as it was; and when an update returns after draining
\* a PAUSE, PLAYING is what the last PAUSE it drained made it.
C23_AsStated ==
  [][/\ PauseStep => PauseFrame
     /\ (UpdateReturns /\ call.pause_mode # <<>>) =>
          (CROCKET_STATE_PLAYING \in Mask <=> call.pause_mode[1] = 0)]_vars

\* the frame of PAUSE on its own (it holds)
PauseFrameHolds == [][PauseStep => PauseFrame]_vars


\* a step in which a byte that is no known command was received
UnknownStep == MessageStep /\ call'.last_msg[1].cmd \notin {0, 1, 3, 4, 5, 6}

\* the drain of an update that made no connection attempt, after it received
\* an unknown command byte
DrainAfterUnknown == pc = "hm_update" /\ call.attempts = 0 /\ call.unknown # 0

\* what handling an unknown command byte leaves as it was: the connection, the
\* bitmask, the tracks, the editor row and the place in the receive loop
UnknownIgnored ==
  /\ crocket_socket' = crocket_socket /\ crocket_socket # INVALID_SOCKET
  /\ crocket_current_state' = crocket_current_state
  /\ crocket_tracks' = crocket_tracks
  /\ crocket_current_row' = crocket_current_row
  /\ pc' = pc

\* C24 as stated: an unknown command byte does not disconnect and changes
\* nothing, and the drain of the update ends with it: no further message is
\* received in that update.
C24_AsStated ==
  [][/\ UnknownStep => UnknownIgnored
     /\ DrainAfterUnknown => ~MessageStep]_vars

\* C24: an unknown command byte does not disconnect, has no payload read for
\* it and changes nothing; the receive loop goes on with its next select(),
\* so the bytes that follow are received as further messages in the same
\* update (and only a select() that finds nothing, or a failure, ends the
\* drain).
C24_UnknownIgnored ==
  [][/\ UnknownStep => UnknownIgnored
     /\ (DrainAfterUnknown /\ pc' # pc) =>
          \/ call'.failed
          \/ crocket_socket' = crocket_socket /\ call' = call]_vars

\* an update received an unknown command byte and then SAVE in the same
\* drain, still connected
C24_Witness ==
  /\ DrainAfterUnknown
  /\ call.unknown = 1
  /\ nmsg = 2
  /\ call.last_msg = <<SaveMsg>>
  /\ CROCKET_EVENT_SAVE \in crocket_current_state
  /\ CROCKET_STATE_CONNECTED \in crocket_current_state


----------------------------------------------------------------------------
(* The handshake and the drain against a server whose messages queue up on *)
(* the connection                                                          *)

QueuedMsgs ==
  {SetKeyMsg(i, r, F(1, 0), 1) : i \in {0, 1}, r \in {1, 3}}
  \cup {DeleteKeyMsg(0, 1), PauseMsg(1), SaveMsg}

NextQueued ==
  \/ crocket_init({60}, {"unset"}, {NoArg})
  \/ reconnect
  \/ reconnect_get_track
  \/ server_send(QueuedMsgs)
  \/ handle_messages_queued
  \/ crocket_init_return
  \/ crocket_update({F(2, 0)})
  \/ crocket_update_time
  \/ crocket_update_return

SpecQueued == Init /\ [][NextQueued]_vars

\* the GET_TRACK commands among the messages sent
GetTracksOf(sent) == SelectSeq(sent, LAMBDA m : "name" \in DOMAIN m)

\* GET_TRACK for the first n tracks of the registry, in index order
GetTracksUpTo(n) == [i \in 1..n |-> GetTrackMsg(AllNames[i])]

\* the step that sends GET_TRACK for track ti
GetTrackStep == pc = "gt" /\ pc' = "hm_track"

\* C25: in a connection attempt the GET_TRACK commands sent so far are those
\* of the first tracks of the registry, in index order, one each, and all of
\* them once the track loop is through; when GET_TRACK for track ti is sent
\* that track is empty; the zero-timeout drain after a GET_TRACK receives the
\* queued messages in the order of their arrival and goes on to the next
\* GET_TRACK only when none is left in the queue.
C25_HandshakeOrder ==
  [][/\ call'.attempts = 1 =>
          /\ \E n \in 0..ntracks : GetTracksOf(call'.sent) = GetTracksUpTo(n)
          /\ pc' = "hm_settle" => GetTracksOf(call'.sent) = GetTracksUpTo(ntracks)
     /\ GetTrackStep =>
          /\ crocket_tracks'[ti].keys = <<>>
          /\ GetTracksOf(call'.sent) = GetTracksUpTo(ti)
     /\ (pc = "hm_track" /\ MessageStep) =>
          /\ call'.last_msg = <<Head(inbox)>>
          /\ inbox' = Tail(inbox)
     /\ (pc = "hm_track" /\ pc' \in {"gt", "hm_settle"}) => inbox = <<>>]_vars

\* GET_TRACK for the second track is about to be sent after the drain applied
\* two SET_KEY messages that were queued after the first GET_TRACK, one of
\* them for the second track, whose key the clearing is about to remove
C25_Witness ==
  /\ pc = "gt" /\ ti = 2
  /\ nmsg = 2
  /\ GetTracksOf(call.sent) = GetTracksUpTo(1)
  /\ Len(crocket_tracks[1].keys) = 1
  /\ Len(crocket_tracks[2].keys) = 1
  /\ inbox = <<>>


----------------------------------------------------------------------------
(* The timeouts of a connection attempt                                    *)

\* the attempt of the running call got as far as the greeting exchange
GreetingExchanged ==
  call.outcome \in {"send_failed", "recv_failed", "bad_greeting", "no_greeting", "greeted"}

\* C26 as stated: the timeouts of RECONNECT_TIMEOUT milliseconds are in force
\* in the greeting exchange of a connection attempt, and no attempt blocks:
\* an attempt against a server that accepts the connection and sends no
\* greeting ends as a failure.
C26_AsStated ==
  /\ GreetingExchanged => hs.timeout = RECONNECT_TIMEOUT
  /\ pc # "blocked"
  /\ (call.outcome = "no_greeting" /\ pc # "rc") =>
       crocket_socket = INVALID_SOCKET /\ call.failed

\* the timeouts are in force for connect() alone: they are reset before the
\* greeting exchange, whose recv() does not return when no greeting arrives
TimeoutForConnectOnly ==
  /\ GreetingExchanged => hs.timeout = 0
  /\ call.outcome = "connect_failed" => hs.timeout = RECONNECT_TIMEOUT
  /\ call.outcome = "no_greeting" => pc = "blocked" /\ crocket_socket # INVALID_SOCKET


----------------------------------------------------------------------------
(* load_data on its own: images with a damaged signature and images with   *)
(* entries for names the registry does not have, loaded into a registry    *)
(* that holds keys already                                                 *)

\* an entry of an image: the bytes of its name and its keys
Entry(name, keys) == [name |-> name, keys |-> keys]

\* "quux", "food" and "fo": no names of the registry
UnknownNames == {NameBytes("quux"), <<102, 111, 111, 100>>, <<102, 111>>}

DecodeEntries ==
  {Entry(NameBytes("foo"), <<Key(2, F(3, 0), 1), Key(200, F(-1, -1), 2)>>),
   Entry(NameBytes("bar"), <<Key(0, F(5, 0), 0)>>),
   Entry(NameBytes("quux"), <<Key(7, F(1, 0), 3), Key(MinInt, F(-1, 0), 1)>>),
   Entry(<<102, 111, 111, 100>>, <<>>),
   Entry(<<102, 111>>, <<Key(300, F(1, 1), 255)>>)}

\* the entries of an image, in its order
DecodeImages == UNION {[1..n -> DecodeEntries] : n \in 0..3}

\* the byte of the signature that is damaged (0: none)
DamagedBytes == {0, 1, 8, 9, 12, 13, 16}

\* the registry before the load: without keys, or every track with two keys
DecodeTracks ==
  {[i \in TrackIds |-> EmptyTrack],
   [i \in TrackIds |-> [alloc |-> INITIAL_KEY_ALLOC,
                        keys |-> <<Key(1, F(1, 0), 1), Key(4, F(-7, 0), 0)>>]]}

\* the bytes of an entry as crocket_get_data lays them out
EntryBytes(e) ==
  put_leb128(Len(e.name)) \o e.name \o put_leb128(Len(e.keys)) \o put_keys(e.keys, 1, 0)

RECURSIVE EntriesBytes(_, _)
EntriesBytes(es, j) ==
  IF j > Len(es) THEN <<>> ELSE EntryBytes(es[j]) \o EntriesBytes(es, j + 1)

\* the image with the entries es
ImageOf(es) ==
  CTF_FILE_HEADER_PART1 \o put_float(CTF_FILE_VERSION) \o CTF_FILE_HEADER_PART3
  \o put_leb128(Len(es)) \o EntriesBytes(es, 1)

\* the image with byte d changed
Damaged(data, d) ==
  IF d = 0 THEN data ELSE [data EXCEPT ![d] = (@ + 1) % 256]

InitDecode ==
  /\ InitSession
  /\ \E tr \in DecodeTracks, es \in DecodeImages, d \in DamagedBytes, null \in BOOLEAN :
       probe = [fn |-> "decode", tracks |-> tr, entries |-> es, damage |-> d,
                data |-> IF null THEN <<>> ELSE Damaged(ImageOf(es), d)]
  /\ result = NoResult

\* load_data(probe.data) on the registry probe.tracks. Where load_data writes
\* past dummy_key the outcome is not defined: the tracks may end in any state.
load_data_probe ==
  /\ probe.fn = "decode"
  /\ result.stage = "none"
  /\ \E malloc_ok \in BOOLEAN :
       LET ub == ~malloc_ok /\ load_data_overruns(probe.data)
       IN  \E tr \in IF ub THEN DecodeTracks
                     ELSE {load_data(probe.data, probe.tracks, malloc_ok)} :
             result' = [stage |-> "decoded", malloc_ok |-> malloc_ok, ub |-> ub,
                        tracks |-> tr]
  /\ UNCHANGED <<probe, session>>

NextDecode == load_data_probe

SpecDecode == InitDecode /\ [][NextDecode]_vars

Signature ==
  CTF_FILE_HEADER_PART1 \o put_float(CTF_FILE_VERSION) \o CTF_FILE_HEADER_PART3

\* C27: load_data on data whose first 16 bytes are not the CTF signature, or
\* on a NULL pointer, leaves every track as it was: key count, capacity and
\* keys.
C27_BadSignatureIgnored ==
  (/\ result.stage = "decoded"
   /\ \/ probe.data = <<>>
      \/ SubSeq(probe.data, 1, CTF_FILE_HEADER_LENGTH) # Signature)
  => result.tracks = probe.tracks

\* an image that would have replaced the keys of both tracks had its last
\* signature byte not been damaged was loaded and changed nothing
C27_Witness ==
  /\ result.stage = "decoded"
  /\ probe.damage = 16 /\ probe.data # <<>>
  /\ Len(probe.entries) = 2
  /\ probe.entries[1].name = NameBytes("foo") /\ probe.entries[2].name = NameBytes("bar")
  /\ Len(probe.tracks[1].keys) = 2
  /\ load_data(ImageOf(probe.entries), probe.tracks, TRUE) # probe.tracks
  /\ result.tracks = probe.tracks


\* the entries of es whose name the registry has
IsRegistered(e) == \E i \in TrackIds : e.name = NameBytes(AllNames[i])
RegisteredOnly(es) == SelectSeq(es, IsRegistered)

\* where entry j of the image of es begins
EntryStart(es, j) ==
  CTF_FILE_HEADER_LENGTH + Len(put_leb128(Len(es))) + Len(EntriesBytes(SubSeq(es, 1, j - 1), 1)) + 1

\* where load_data is after reading entry j of the image of es into dummy_key
EntrySkipped(es, j) ==
  LET data == ImageOf(es)
      n    == get_leb128(data, EntryStart(es, j))
      l    == get_leb128(data, n.pos + n.val)
  IN  skip_keys(data, l.pos, l.val)

\* an intact image was loaded and load_data stayed within dummy_key
DecodedImage ==
  /\ result.stage = "decoded"
  /\ probe.data # <<>> /\ probe.damage = 0
  /\ ~result.ub

\* C28: for every entry of an image whose name is no name of the registry,
\* load_data finds no track, reads exactly the bytes of the entry, and the
\* tracks end as they do when the image without these entries is loaded.
C28_UnknownEntrySkipped ==
  DecodedImage =>
    LET es == probe.entries
    IN  /\ \A j \in 1..Len(es) :
             ~IsRegistered(es[j]) =>
               /\ find_track(ImageOf(es), EntryStart(es, j) + 1, Len(es[j].name))
                    = ntracks + 1
               /\ EntrySkipped(es, j) = EntryStart(es, j) + Len(EntryBytes(es[j]))
        /\ result.tracks
             = load_data(ImageOf(RegisteredOnly(es)), probe.tracks, result.malloc_ok)
        /\ RegisteredOnly(es) = <<>> => result.tracks = probe.tracks

\* an image with the entries "fo" (one key), "foo" (two keys) and "quux" (two
\* keys) was loaded into a registry with keys: "foo" got the two keys of its
\* entry and the other track kept its own
C28_Witness ==
  /\ DecodedImage /\ result.malloc_ok
  /\ Len(probe.entries) = 3
  /\ probe.entries[1].name = <<102, 111>>
  /\ probe.entries[2].name = NameBytes("foo")
  /\ probe.entries[3].name = NameBytes("quux")
  /\ Len(probe.tracks[2].keys) = 2
  /\ result.tracks[1].keys = probe.entries[2].keys
  /\ result.tracks[1].alloc = 2
  /\ result.tracks[2] = probe.tracks[2]


\* the first set_key of the probe had to grow the key array of its track and
\* realloc() failed
FirstSetKeyFailed(first) ==
  /\ ULt(first.track_index, ntracks)
  /\ ~first.realloc_ok
  /\ LET t == probe.tracks[first.track_index + 1]
     IN  /\ Len(t.keys) >= t.alloc
         /\ \A j \in 1..Len(t.keys) : t.keys[j].row # first.row

\* C29: when realloc() fails in a set_key that has to grow the key array, the
\* track ends without keys and with capacity 0, so without the new key, and
\* the other tracks are as before; set_key returns nothing. The next set_key
\* on that track, when its realloc() succeeds, leaves the track with that one
\* key and capacity INITIAL_KEY_ALLOC, and when it fails too, leaves it empty.
C29_SetKeyOutOfMemory ==
  /\ (result.stage = "set" /\ FirstSetKeyFailed(result)) =>
       /\ result.tracks[result.track_index + 1] = [alloc |-> 0, keys |-> <<>>]
       /\ \A h \in TrackIds \ {result.track_index + 1} :
            result.tracks[h] = probe.tracks[h]
  /\ (result.stage = "set_again" /\ FirstSetKeyFailed(result.first)) =>
       LET i == result.first.track_index + 1
       IN  /\ result.tracks[i] =
                IF result.realloc_ok
                THEN [alloc |-> INITIAL_KEY_ALLOC, keys |-> <<Key(result.row, F(5, 0), 1)>>]
                ELSE [alloc |-> 0, keys |-> <<>>]
           /\ \A h \in TrackIds \ {i} : result.tracks[h] = probe.tracks[h]

\* a track with seven keys in an array of seven lost them all in a set_key
\* whose realloc() failed, and the set_key after it put its key into a new
\* array of INITIAL_KEY_ALLOC keys
C29_Witness ==
  /\ result.stage = "set_again"
  /\ FirstSetKeyFailed(result.first)
  /\ result.first.track_index = 0
  /\ Len(probe.tracks[1].keys) = 7
  /\ result.first.tracks[1] = [alloc |-> 0, keys |-> <<>>]
  /\ result.realloc_ok
  /\ result.tracks[1].alloc = INITIAL_KEY_ALLOC
  /\ Len(result.tracks[1].keys) = 1


----------------------------------------------------------------------------
(* The drain of an update                                                  *)

DrainMsgs == {SetKeyMsg(0, 1, F(1, 0), 1), DeleteKeyMsg(0, 1), PauseMsg(1)}

NextDrain ==
  \/ crocket_init({60}, {"unset"}, {NoArg})
  \/ reconnect
  \/ reconnect_get_track
  \/ server_send(DrainMsgs)
  \/ handle_messages_queued
  \/ crocket_init_return
  \/ crocket_update({F(2, 0)})
  \/ crocket_update_time
  \/ crocket_update_return

\* the client goes on whenever it can: crocket_update runs to its return
SpecDrain ==
  /\ Init /\ [][NextDrain]_vars
  /\ WF_vars(handle_messages_queued)
  /\ WF_vars(crocket_update_time)
  /\ WF_vars(crocket_update_return)

\* the drain of crocket_update on an open socket
Draining == pc = "hm_update" /\ caller = "update" /\ crocket_socket # INVALID_SOCKET

\* C30: on an open socket each pass of the drain of crocket_update that finds
\* data receives the message at the head of the queue and handles it, and the
\* drain returns to the update only when the queue is empty (or a socket call
\* failed); with an empty queue the next pass returns without receiving
\* anything. As the server sends finitely many messages, every update that
\* reached its drain returns.
C30_DrainTerminates ==
  /\ [][Draining =>
          /\ MessageStep =>
               /\ inbox # <<>>
               /\ call'.last_msg = <<Head(inbox)>>
               /\ inbox' = Tail(inbox)
               /\ pc' = pc
          /\ pc' # pc =>
               /\ pc' = "time"
               /\ ~MessageStep
               /\ crocket_socket' = INVALID_SOCKET \/ inbox = <<>>]_vars
  /\ (pc = "hm_update" /\ caller = "update") ~> (pc = "idle")

\* the drain of an update that made no connection attempt received the two
\* messages that were queued, SET_KEY and then DELETE_KEY for the same row,
\* and returned with the queue empty, the connection up and the key gone
C30_Witness ==
  /\ pc = "time" /\ caller = "update"
  /\ call.attempts = 0
  /\ nmsg = 2
  /\ call.last_msg = <<DeleteKeyMsg(0, 1)>>
  /\ \A j \in 1..Len(crocket_tracks[1].keys) : crocket_tracks[1].keys[j].row # 1
  /\ inbox = <<>>
  /\ crocket_socket # INVALID_SOCKET
  /\ CROCKET_STATE_CONNECTED \in crocket_current_state


----------------------------------------------------------------------------
(* Actions: the session with a server that sends ACTION with numbers at     *)
(* both ends of the mask and past it                                       *)

\* action numbers as 32-bit words: -8 is 4294967288, -1 is 4294967295
ActionValues == {0, 1, 22, 23, 24, 56, MaxInt, MinInt, -8, -7, -5, -3, -1}

ActionMsgs == {ActionMsg(n) : n \in ActionValues} \cup {PauseMsg(0)}

NextAction ==
  \/ crocket_init({60}, {"unset"}, {NoArg})
  \/ reconnect
  \/ reconnect_get_track
  \/ handle_messages(ActionMsgs)
  \/ crocket_init_return
  \/ crocket_update({ZeroF})
  \/ crocket_update_time
  \/ crocket_update_return

SpecAction == Init /\ [][NextAction]_vars

\* a step in which an ACTION message was received and handled
ActionStep == MessageStep /\ call'.last_msg[1].cmd = 6

\* the bits below the ACTION bits: PLAYING, CONNECTED and the named events
NamedBits == 0..7

\* C31 as stated: handling ACTION(n), for every unsigned 32-bit n, leaves
\* PLAYING, CONNECTED and every event bit that is no ACTION bit as they were,
\* changes no bit but one, and sets bit 8 + n when the mask has such a bit.
C31_AsStated ==
  [][ActionStep =>
       LET n == call'.last_msg[1].action
       IN  /\ crocket_current_state' \cap NamedBits = crocket_current_state \cap NamedBits
           /\ Cardinality(crocket_current_state' \ crocket_current_state) <= 1
           /\ (n >= 0 /\ n <= 23) =>
                crocket_current_state' = crocket_current_state \cup {8 + n}]_vars

\* for n in 0..23 handling ACTION(n) sets bit 8 + n and nothing else (it holds)
ActionInRange ==
  [][ActionStep =>
       LET n == call'.last_msg[1].action
       IN  (n >= 0 /\ n <= 23) =>
             crocket_current_state' = crocket_current_state \cup {8 + n}]_vars


----------------------------------------------------------------------------
(* The connection state between the calls                                  *)

\* a call of the API has returned
Returned == pc = "idle" /\ last # "none"

\* C32: when crocket_init, crocket_update, crocket_set_mode or crocket_done
\* has returned, the socket is open exactly when CONNECTED is set, and
\* CONNECTED is set in client mode only.
C32_SocketIffConnected ==
  Returned =>
    /\ crocket_socket # INVALID_SOCKET <=> CROCKET_STATE_CONNECTED \in Mask
    /\ CROCKET_STATE_CONNECTED \in Mask => crocket_mode = CROCKET_MODE_CLIENT

\* a call has returned in client mode after the settle drain of the latest
\* connection attempt failed: the socket is closed and CONNECTED is clear
C32_Witness ==
  /\ Returned /\ last = "other"
  /\ hs.greeted /\ hs.get_track = ntracks /\ ~hs.settled
  /\ crocket_socket = INVALID_SOCKET
  /\ CROCKET_STATE_CONNECTED \notin Mask
  /\ crocket_mode = CROCKET_MODE_CLIENT


\* C33 as stated: DISCONNECT becomes set only in a step in which CONNECTED goes
\* from set to clear, and every such step sets it; it then stays set until an
\* update returns it (or crocket_init starts over), and the return of that
\* update clears it; and an update in client mode that began without a
\* connection and without a pending DISCONNECT, and whose connection attempt
\* did not complete the handshake, returns no DISCONNECT.
C33_AsStated ==
  [][/\ (CROCKET_EVENT_DISCONNECT \notin Mask /\ CROCKET_EVENT_DISCONNECT \in Mask') =>
          (CROCKET_STATE_CONNECTED \in Mask /\ CROCKET_STATE_CONNECTED \notin Mask')
     /\ (CROCKET_STATE_CONNECTED \in Mask /\ CROCKET_STATE_CONNECTED \notin Mask'
         /\ ~InitStep) =>
          CROCKET_EVENT_DISCONNECT \in Mask'
     /\ (CROCKET_EVENT_DISCONNECT \in Mask /\ ~UpdateReturnStep /\ ~InitStep) =>
          CROCKET_EVENT_DISCONNECT \in Mask'
     /\ UpdateReturnStep =>
          /\ CROCKET_EVENT_DISCONNECT \notin Mask'
          /\ (/\ crocket_mode = CROCKET_MODE_CLIENT
              /\ ~call.conn0
              /\ CROCKET_EVENT_DISCONNECT \notin call.pending
              /\ call.attempts = 1 /\ ~HandshakeCompleted) =>
               CROCKET_EVENT_DISCONNECT \notin Mask]_vars


\* C34 as stated: in the mask crocket_update(&time) returns, CONNECT comes with
\* CONNECTED and DISCONNECT comes without it.
C34_AsStated ==
  UpdateReturns =>
    /\ CROCKET_EVENT_CONNECT \in Mask => CROCKET_STATE_CONNECTED \in Mask
    /\ CROCKET_EVENT_DISCONNECT \in Mask => CROCKET_STATE_CONNECTED \notin Mask


\* C35 as stated: in the mask crocket_update(&time) returns, STOP comes with
\* neither PLAY nor PLAYING.
C35_AsStated ==
  UpdateReturns =>
    (CROCKET_EVENT_STOP \in Mask =>
       /\ CROCKET_EVENT_PLAY \notin Mask
       /\ CROCKET_STATE_PLAYING \notin Mask)

\* C36 as stated: in the mask crocket_update(&time) returns, PLAY comes with
\* PLAYING.
C36_AsStated ==
  UpdateReturns =>
    (CROCKET_EVENT_PLAY \in Mask => CROCKET_STATE_PLAYING \in Mask)


\* the step of crocket_update(&time) that brings time and row in line
UpdateTimeStep == pc = "time" /\ pc' = "ret" /\ caller = "update"

\* C37 as stated: an update that runs in player mode, however that mode was
\* reached, takes the branch that leaves *p_time alone and returns a mask
\* without SEEK.
C37_AsStated ==
  [][/\ (UpdateTimeStep /\ crocket_mode = CROCKET_MODE_PLAYER) =>
          /\ CROCKET_EVENT_SEEK \notin crocket_current_state
          /\ p_time' = p_time
     /\ (UpdateReturnStep /\ crocket_mode = CROCKET_MODE_PLAYER) =>
          CROCKET_EVENT_SEEK \notin Mask]_vars


\* the step of reconnect() that runs socket(), connect() and the greeting
ConnectStep == pc = "rc" /\ call'.attempts = call.attempts + 1

\* this update's connection attempt ended before the greetings were exchanged
FailedBeforeGreeting ==
  /\ caller = "update"
  /\ call.attempts = 1
  /\ call.outcome \in ConnectOutcomes \ {"greeted"}

\* C38: a connection attempt that fails before the greeting exchange is
\* through (socket(), connect(), the greeting's send or receive, or a greeting
\* that does not match) changes no track's keys, neither in reconnect() nor in
\* the rest of the update that made the attempt.
C38_FailedAttemptKeepsKeys ==
  [][/\ (ConnectStep /\ ~hs'.greeted) => crocket_tracks' = crocket_tracks
     /\ FailedBeforeGreeting => crocket_tracks' = crocket_tracks]_vars

C38_Witness ==
  /\ UpdateReturns
  /\ FailedBeforeGreeting
  /\ call.outcome = "bad_greeting"
  /\ \E i \in TrackIds : crocket_tracks[i].keys # <<>>


\* the size the image is allowed: 16 + 5 bytes, and for every track its name
\* length, 10 bytes, and 10 bytes per key
RECURSIVE ImageBound(_, _)
ImageBound(tr, i) ==
  IF i > ntracks THEN 16 + 5
  ELSE Len(NameBytes(AllNames[i])) + 10 + 10 * Len(tr[i].keys) + ImageBound(tr, i + 1)

\* C39: the bytes crocket_get_data writes fit the buffer it allocated before
\* writing, whose size is 16 + 5 plus, for every track, the length of its
\* name, 10, and 10 for each of its keys.
C39_ImageFitsAllocation ==
  result.stage \in {"image", "loaded"} =>
    /\ result.size = ImageBound(probe.tracks, 1)
    /\ Len(result.data) <= result.size

C39_Witness ==
  /\ result.stage = "image"
  /\ \A i \in TrackIds : Len(probe.tracks[i].keys) = 4
  /\ \E i \in TrackIds :
       LET keys == probe.tracks[i].keys
       IN  Len(put_leb128(SubW(keys[3].row, AddW(keys[2].row, 1)))) = MAX_LEB128_SIZE
  /\ Len(result.data) > CTF_FILE_HEADER_LENGTH + 1 + 32 * ntracks

=============================================================================
